---------------------------- MODULE Spec2Model ----------------------------
(***************************************************************************)
(* GPS scintillation pipeline.                                             *)
(*                                                                         *)
(*   backend/analyzer.py        GPSScintillationAnalyzer: load_data,       *)
(*                              merge_data, analyze_statistics, the        *)
(*                              response envelope                          *)
(*   backend/main.py            POST /analyze/ and the module-level cache  *)
(*   data/automated_processor.py AutomatedGPSProcessor: the six steps of   *)
(*                              run_processing_cycle, the alert log and    *)
(*                              start_scheduler                            *)
(*   data/app.py                filter_s4c_data, the stand-alone alert log *)
(*                              update                                     *)
(*                                                                         *)
(* The specifications of the module:                                       *)
(*   SpecAnalyzer    one analyzer object: load, merge, statistics          *)
(*   SpecResponse    the response envelope of a merged analyzer            *)
(*   SpecBackend     up to MaxRequests POST /analyze/ requests             *)
(*   SpecSingleRun   one operation on the files of a data folder: a        *)
(*                   processing cycle, a filter_s4c_data call, a           *)
(*                   test_api_connection run or an upload_csv call         *)
(*   SpecCycle       up to MaxOps such operations in a row                 *)
(*   SpecConcurrent  two writers and a reader of one alert log             *)
(*   SpecScheduler   start_scheduler and the cycles it starts              *)
(*   SpecTwoCycles   two cycles in a row on an absent or empty alert log   *)
(*   SpecRetry       a cycle and its repetition on the same batch          *)
(*   SpecEndpoints   POST /analyze/ requests and the GET endpoints         *)
(*   SpecTwin        generate_s4c_alert_file and filter_s4c_data on one    *)
(*                   folder                                                *)
(***************************************************************************)
EXTENDS Integers, Sequences, FiniteSets, TLC

VARIABLES
    \* ---- GPSScintillationAnalyzer (analyzer.py:10-15)
    lat_data, lon_data, s4c_data, combined_data, active_satellites,
    astate,          \* "new" | "loaded" | "merged" | "raised" | "analyzed" |
                     \* "stats_raised": how far the object has been driven
    sat_stats,       \* first result of analyze_statistics
    temporal_stats,  \* second result of analyze_statistics
    transformed_response,  \* result of create_transformed_data_response
    transformed_data,      \* result of transform_to_new_format
    \* ---- backend/main.py: the module-level cache and the /analyze/ handler
    cache,           \* per key, the item and the request that stored it
    requests,        \* POST /analyze/ requests received so far
    reply,           \* what the latest request was answered: "none" | "ok" | "error"
    last_ok,         \* the latest request that ended "ok" (0: none yet)
    bpc,             \* position inside analyze_files
    got,             \* the latest GET request: its path, its cache key and its answer
    \* ---- AutomatedGPSProcessor and its data folder
    pc,              \* position inside run_processing_cycle
    api_response,    \* local of run_processing_cycle
    records,         \* local of run_processing_cycle
    output_file,     \* data.csv
    alert_file,      \* log_s4c_alert.csv
    github,          \* the two files of the GitHub repository
    now,             \* wall clock, in ticks
    result,          \* return value of the last finished cycle
    ops,             \* operations on the data folder started so far
    ran,             \* the latest operation: "none" | "cycle" | "filter"
    data_arg,        \* the data file the latest filter_s4c_data call was given
    alert_at_start,  \* log_s4c_alert.csv when the latest operation started
    last_step,       \* the last step the latest cycle executed
    step_log,        \* the steps the latest cycle executed, each with its outcome
    folder_at_start, \* data.csv and the repository when the latest operation started
    prev,            \* the operation before the latest one
    success_count,   \* local of upload_to_github
    \* ---- processes that share log_s4c_alert.csv
    wpc,             \* per writer, its position in the read-decide-write sequence
    wcand,           \* per writer, its candidate rows (alert_df)
    wout,            \* per writer, the rows its to_csv call writes
    seen,            \* what a reader of the file got
    opened,          \* the writers that have opened the file for writing, in order
    \* ---- start_scheduler
    spc,             \* position of the scheduler thread
    clock,           \* minutes since start_scheduler was called
    next_run,        \* when the scheduled job is due
    running,         \* cycles that have started and not returned
    started,         \* cycles started so far
    lateness,        \* minutes past due at which the latest scheduled cycle started
    \* ---- the two alert-log implementations side by side
    twin_out         \* per implementation, its return value and the log it leaves

avars == <<lat_data, lon_data, s4c_data, combined_data, active_satellites, astate,
           sat_stats, temporal_stats, transformed_response, transformed_data>>
bvars == <<cache, requests, reply, last_ok, bpc, got>>
wvars == <<wpc, wcand, wout, seen, opened>>
svars == <<spc, clock, next_run, running, started, lateness>>
cvars == <<pc, api_response, records, output_file, alert_file, github, now,
           result, ops, ran, data_arg, alert_at_start, last_step,
           step_log, folder_at_start, prev, success_count>>
tvars == <<twin_out>>
vars  == <<avars, bvars, cvars, wvars, svars, tvars>>

\* Python's None against a value, and a missing cell against a number: the
\* empty tuple against a one-element tuple.
None    == <<>>
Some(x) == <<x>>
NaN     == <<>>

(***************************************************************************)
(* Bounds of the model.                                                    *)
(***************************************************************************)
MaxRows    == 2     \* rows of an input matrix
MaxTs      == 4     \* distinct timestamps of a batch, in ticks
TicksPerMinute == 2 \* clock ticks per minute: timestamp t lies in minute t \div 2
MaxMissing == 2     \* missing cells over the three matrices of a batch
TicksPerDay == 2    \* clock ticks per day; a record's Time lies in day 0
MaxBatch   == 2     \* records of one API response
MaxLog     == 2     \* rows of the alert log found by the first cycle
MaxOps     == 2     \* operations on the data folder: cycles and filter calls
MaxRequests == 2    \* POST /analyze/ requests
MaxCoverageRows == 10  \* rows of the latitude matrix of a coverage computation
MaxClock   == 40    \* minutes the scheduler is followed for
MaxCycles  == 3     \* cycles the scheduler starts

Timestamps == 1..MaxTs
\* analyzer.py:24-25: pd.to_datetime turns a blank row label into NaT, the
\* missing date, and does not raise.  NaT is below every date, as the
\* integer pandas stores it as is.
NaT == 0
\* The row labels of a loaded matrix: a date, or NaT.
Labels == Timestamps \cup {NaT}
Satellites == <<"G01", "G02">>      \* the satellite columns, in file order

RECURSIVE SeqsUpTo(_, _)
SeqsUpTo(S, n) ==
    IF n = 0 THEN {<<>>}
    ELSE LET shorter == SeqsUpTo(S, n - 1)
         IN  shorter \cup {Append(s, x) : s \in {q \in shorter : Len(q) = n - 1}, x \in S}

RECURSIVE SubsetsUpTo(_, _)
SubsetsUpTo(S, k) ==
    IF k = 0 \/ S = {} THEN {{}}
    ELSE LET x    == CHOOSE y \in S : TRUE
             rest == S \ {x}
         IN  SubsetsUpTo(rest, k) \cup {T \cup {x} : T \in SubsetsUpTo(rest, k - 1)}

Range(s) == {s[i] : i \in DOMAIN s}

(***************************************************************************)
(* Data frames of analyzer.py: a row index (timestamps, in file order, not *)
(* necessarily sorted or unique), the columns, and one cell per row        *)
(* position and column, a number or NaN.                                   *)
(***************************************************************************)
DataFrame(index, columns, cells) ==
    [index   |-> index,
     columns |-> columns,
     cells   |-> [p \in (DOMAIN index) \X Range(columns) |-> cells[p]]]

\* The values the input files hold where a cell is present: distinct per
\* matrix, row and column, so that a merged record shows where it came from.
ColNo(c) == CHOOSE i \in DOMAIN Satellites : Satellites[i] = c
FileValue(matrix, r, c) ==
    (CASE matrix = "lat" -> 1000 [] matrix = "lon" -> 2000 [] matrix = "s4c" -> 3000)
    + 10 * r + ColNo(c)

DropLast(s) == SubSeq(s, 1, Len(s) - 1)

notna(v) == v # NaN

\* The outcome of a lookup: err is "" for a scalar (value holds the cell),
\* or the reason no scalar came back.
Scalar(cell) == [err |-> "", value |-> cell]
Failed(why)  == [err |-> why, value |-> NaN]

\* df.loc[timestamp, satellite] (analyzer.py:35-37): a label lookup. A label
\* that is absent raises KeyError; a row label held by several rows yields a
\* Series, not a scalar.
Loc(df, timestamp, satellite) ==
    LET rows == {i \in DOMAIN df.index : df.index[i] = timestamp}
    IN  IF rows = {} \/ satellite \notin Range(df.columns) THEN Failed("KeyError")
        ELSE IF Cardinality(rows) > 1 THEN Failed("Series")
        ELSE Scalar(df.cells[<<CHOOSE i \in rows : TRUE, satellite>>])

\* analyzer.py:28: the columns of the latitude matrix with a present value,
\* in column order.
\* (ActiveInEveryRow: the faulty variant that wants a value in every row.)
ActiveInEveryRow(df) ==
    SelectSeq(df.columns,
              LAMBDA c : \A i \in DOMAIN df.index : notna(df.cells[<<i, c>>]))
ActiveSatellites(df) ==
    SelectSeq(df.columns,
              LAMBDA c : \E i \in DOMAIN df.index : notna(df.cells[<<i, c>>]))

\* analyzer.py:39: pd.notna(lat) and pd.notna(lon) and pd.notna(s4c), with
\* Python's short-circuit evaluation; the truth value of a Series raises
\* ValueError.
Truth(b) == IF b THEN "True" ELSE "False"
\* (LatPresent: the faulty variant that tests the latitude alone.)
LatPresent(lat, lon, s4c) ==
    IF lat.err = "Series" THEN "ValueError" ELSE Truth(notna(lat.value))
KeepRecord(lat, lon, s4c) ==
    IF lat.err = "Series" THEN "ValueError"
    ELSE IF ~notna(lat.value) THEN "False"
    ELSE IF lon.err = "Series" THEN "ValueError"
    ELSE IF ~notna(lon.value) THEN "False"
    ELSE IF s4c.err = "Series" THEN "ValueError"
    ELSE Truth(notna(s4c.value))

\* analyzer.py:33-34: the pairs the two nested loops visit, in visiting
\* order: the rows of the latitude index from first to last, and for each
\* row the active satellites from first to last.
RECURSIVE RowMajor(_, _, _)
RowMajor(index, sats, i) ==
    IF i > Len(index) THEN <<>>
    ELSE [k \in DOMAIN sats |-> <<index[i], sats[k]>>] \o RowMajor(index, sats, i + 1)
RECURSIVE ColMajor(_, _, _)
ColMajor(index, sats, k) ==
    IF k > Len(sats) THEN <<>>
    ELSE [i \in DOMAIN index |-> <<index[i], sats[k]>>] \o ColMajor(index, sats, k + 1)
\* (VisitBySatellite: the faulty variant with the two loops swapped.)
VisitBySatellite(index, sats) == ColMajor(index, sats, 1)
VisitOrder(index, sats) == RowMajor(index, sats, 1)

\* A merged record's three numbers are floats, which may be NaN: they keep
\* the cell's form, NaN or Some(number).
\* analyzer.py:32-46: the loop body applied to the pairs from position k on;
\* raised when a lookup or the truth test raises.
RECURSIVE MergeFrom(_, _, _, _, _, _)
MergeFrom(lat_df, lon_df, s4c_df, pairs, k, merged_records) ==
    IF k > Len(pairs) THEN [raised |-> FALSE, merged_records |-> merged_records]
    ELSE LET timestamp == pairs[k][1]
             satellite == pairs[k][2]
             lat  == Loc(lat_df, timestamp, satellite)
             lon  == Loc(lon_df, timestamp, satellite)
             s4c  == Loc(s4c_df, timestamp, satellite)
             keep == IF "KeyError" \in {lat.err, lon.err, s4c.err} THEN "KeyError"
                     ELSE KeepRecord(lat, lon, s4c)
         IN  IF keep \in {"KeyError", "ValueError"}
             THEN [raised |-> TRUE, merged_records |-> <<>>]
             ELSE MergeFrom(lat_df, lon_df, s4c_df, pairs, k + 1,
                            IF keep = "True"
                            THEN Append(merged_records,
                                        [timestamp |-> timestamp,
                                         satellite |-> satellite,
                                         latitude  |-> lat.value,
                                         longitude |-> lon.value,
                                         s4c       |-> s4c.value])
                            ELSE merged_records)

\* analyzer.py:30-48
merge_data(lat_df, lon_df, s4c_df, sats) ==
    MergeFrom(lat_df, lon_df, s4c_df, VisitOrder(lat_df.index, sats), 1, <<>>)

(***************************************************************************)
(* Statistics and the response envelope (analyzer.py:50-96, 160-224).      *)
(* Numbers with decimals are held in millionths, the resolution of         *)
(* round(6); a cell value v of an input file stands for v / 10000.         *)
(***************************************************************************)
Micro(v) == 100 * v

RECURSIVE Sum(_)
Sum(xs) == IF xs = <<>> THEN 0 ELSE Head(xs) + Sum(Tail(xs))

SetMin(S) == CHOOSE x \in S : \A y \in S : x <= y
SetMax(S) == CHOOSE x \in S : \A y \in S : y <= x

\* a / b rounded to the nearest integer, a tie to the even one (round(6) of
\* numpy, and the 'f' format of Python); a >= 0 and b > 0.
RoundHalfEven(a, b) ==
    LET q == a \div b
        r == a % b
    IN  IF 2 * r < b THEN q
        ELSE IF 2 * r > b THEN q + 1
        ELSE IF q % 2 = 0 THEN q ELSE q + 1

\* The integer nearest to sqrt(a / b), searched in lo..hi.
RECURSIVE RoundSqrt(_, _, _, _)
RoundSqrt(a, b, lo, hi) ==
    IF lo >= hi THEN lo
    ELSE LET mid == (lo + hi + 1) \div 2
         IN  IF (2 * mid - 1) * (2 * mid - 1) * b <= 4 * a
             THEN RoundSqrt(a, b, mid, hi)
             ELSE RoundSqrt(a, b, lo, mid - 1)

\* The aggregations of analyzer.py:88-94 over the s4c values xs of one
\* group, in millionths. 'mean' of no value is NaN; 'std' is the sample
\* standard deviation (ddof = 1), NaN for fewer than two values.
agg_count(xs) == Len(xs)
agg_mean(xs)  == IF xs = <<>> THEN NaN ELSE Some(RoundHalfEven(Sum(xs), Len(xs)))
agg_std(xs)   ==
    IF Len(xs) < 2 THEN NaN
    ELSE LET n    == Len(xs)
             low  == SetMin(Range(xs))
             d    == [i \in DOMAIN xs |-> xs[i] - low]
             ssq  == n * Sum([i \in DOMAIN d |-> d[i] * d[i]]) - Sum(d) * Sum(d)
         IN  Some(RoundSqrt(ssq, n * (n - 1), 0, SetMax(Range(xs)) - low))
agg_min(xs)   == Some(SetMin(Range(xs)))
agg_max(xs)   == Some(SetMax(Range(xs)))

S4cColumn(rows) == [i \in DOMAIN rows |-> Micro(rows[i].s4c[1])]

\* analyzer.py:88-90: groupby('satellite'): one row per satellite that has
\* a record, the satellites in sorted order.
SatStats(merged) ==
    LET keys == SelectSeq(Satellites,
                          LAMBDA c : \E i \in DOMAIN merged : merged[i].satellite = c)
    IN  [k \in DOMAIN keys |->
            LET xs == S4cColumn(SelectSeq(merged, LAMBDA m : m.satellite = keys[k]))
            IN  [satellite |-> keys[k], count |-> agg_count(xs), mean |-> agg_mean(xs),
                 std |-> agg_std(xs), min |-> agg_min(xs), max |-> agg_max(xs)]]

\* The start of the clock minute an instant lies in.
floor_minute(t) == t - (t % TicksPerMinute)

\* analyzer.py:92-94: groupby(pd.Grouper(freq='1min')): one row per clock
\* minute from the minute of the earliest record to the minute of the
\* latest one, the minutes without a record included.
\* The records of a NaT timestamp belong to no minute: the minimum and the
\* maximum of the index skip NaT, and the result holds no row for them.
Dated(merged) == SelectSeq(merged, LAMBDA m : m.timestamp # NaT)
GrouperBins(merged) ==
    LET minutes == {floor_minute(Dated(merged)[i].timestamp) : i \in DOMAIN Dated(merged)}
    IN  IF minutes = {} THEN <<>>
        ELSE [k \in 1..((SetMax(minutes) - SetMin(minutes)) \div TicksPerMinute + 1) |->
                SetMin(minutes) + (k - 1) * TicksPerMinute]

TemporalStats(merged) ==
    LET bins == GrouperBins(merged)
    IN  [k \in DOMAIN bins |->
            LET xs == S4cColumn(SelectSeq(Dated(merged),
                                  LAMBDA m : floor_minute(m.timestamp) = bins[k]))
            IN  [timestamp |-> bins[k], count |-> agg_count(xs),
                 mean |-> agg_mean(xs), std |-> agg_std(xs)]]

\* analyzer.py:83-96. combined is None, or Some(rows); a frame built from no
\* row has no column, and groupby('satellite') raises KeyError on it.
analyze_statistics(combined) ==
    IF combined = None
    THEN [raised |-> FALSE, sat_stats |-> None, temporal_stats |-> None]
    ELSE IF combined[1] = <<>>
    THEN [raised |-> TRUE, sat_stats |-> None, temporal_stats |-> None]
    ELSE [raised |-> FALSE,
          sat_stats      |-> Some(SatStats(combined[1])),
          temporal_stats |-> Some(TemporalStats(combined[1]))]

\* analyzer.py:76: strftime('%Y-%m-%d %H:%M:%S') of a timestamp: the minute
\* and the tick within it.
TimeText(t) == <<t \div TicksPerMinute, t % TicksPerMinute>>

\* analyzer.py:61-64: dropna() of the five required columns keeps the rows
\* with no null in any of them: the timestamp (null when NaT) and the three
\* numbers.  The satellite is a column label of read_csv, a string, which
\* is never null.
NoNull(m) ==
    /\ m.timestamp # NaT
    /\ notna(m.s4c) /\ notna(m.latitude) /\ notna(m.longitude)

\* analyzer.py:50-81
\* (TransformNewestFirst: the faulty variant that returns the rows in
\* reverse order.)
TransformNewestFirst(combined) ==
    IF combined = None \/ combined[1] = <<>> THEN <<>>
    ELSE LET rows == SelectSeq(combined[1], NoNull)
         IN  [i \in DOMAIN rows |->
                [Satellite |-> rows[Len(rows) + 1 - i].satellite,
                 Time      |-> TimeText(rows[Len(rows) + 1 - i].timestamp),
                 S4C       |-> Micro(rows[Len(rows) + 1 - i].s4c[1]),
                 Lat       |-> Micro(rows[Len(rows) + 1 - i].latitude[1]),
                 Lon       |-> Micro(rows[Len(rows) + 1 - i].longitude[1])]]
transform_to_new_format(combined) ==
    IF combined = None \/ combined[1] = <<>> THEN <<>>
    ELSE LET rows == SelectSeq(combined[1], NoNull)
         IN  [i \in DOMAIN rows |->
                [Satellite |-> rows[i].satellite,
                 Time      |-> TimeText(rows[i].timestamp),
                 S4C       |-> Micro(rows[i].s4c[1]),
                 Lat       |-> Micro(rows[i].latitude[1]),
                 Lon       |-> Micro(rows[i].longitude[1])]]

\* A percentage as the text the 'f' format writes: the digits before the
\* point, the digits after it, and the suffix.
Percent(hundredths) ==
    [whole    |-> hundredths \div 100,
     decimals |-> <<(hundredths % 100) \div 10, hundredths % 10>>,
     suffix   |-> "%"]
ZeroPercent == [whole |-> 0, decimals |-> <<>>, suffix |-> "%"]

\* analyzer.py:219
\* (CoverageOfColumns: the faulty variant that counts every column of the
\* latitude file, active or not.)
CoverageOfColumns(n_records, n_active, n_rows) ==
    IF n_active # 0 /\ n_rows # 0
    THEN Percent(RoundHalfEven(n_records * 10000, Len(Satellites) * n_rows))
    ELSE ZeroPercent
data_coverage(n_records, n_active, n_rows) ==
    IF n_active # 0 /\ n_rows # 0
    THEN Percent(RoundHalfEven(n_records * 10000, n_active * n_rows))
    ELSE ZeroPercent

\* analyzer.py:186: float(transformed_df['S4C'].std()) if not
\* transformed_df.empty else None.  The sample deviation of one value is
\* NaN.  What kind of value the response holds: "None", "NaN" or "float".
s4c_std(transformed_df) ==
    IF transformed_df = <<>> THEN "None"
    ELSE IF Len(transformed_df) < 2 THEN "NaN"
    ELSE "float"

NoResponseYet == [status |-> "none", total_records |-> 0, data_coverage |-> ZeroPercent,
                  s4c_std |-> "None"]

\* analyzer.py:160-224: the status, the record count, the coverage and the
\* standard deviation of the response.
create_transformed_data_response(combined, sats, lat_df) ==
    IF combined = None
    THEN [status |-> "error", total_records |-> 0, data_coverage |-> ZeroPercent,
          s4c_std |-> "None"]
    ELSE LET transformed_df == transform_to_new_format(combined)
         IN  [status        |-> "success",
              total_records |-> Len(transformed_df),
              data_coverage |-> data_coverage(Len(transformed_df), Len(sats),
                                              Len(lat_df.index)),
              s4c_std       |-> s4c_std(transformed_df)]

(***************************************************************************)
(* What JSONResponse.render makes of a value (json.dumps with              *)
(* allow_nan=False): "ok", or the exception it raises.  A pandas Timestamp *)
(* is not JSON serializable (TypeError); a NaN is out of range             *)
(* (ValueError).                                                           *)
(***************************************************************************)
\* combined.to_dict(orient='records'): each record holds its timestamp.
CombinedJson(combined) == IF combined[1] = <<>> THEN "ok" ELSE "TypeError"
\* sat_stats.to_dict(orient='records'): the std of a group of one is NaN.
SatStatsJson(stats) ==
    IF \E i \in DOMAIN stats[1] : stats[1][i].std = NaN THEN "ValueError" ELSE "ok"
\* temporal_stats.to_dict(orient='records'): each row holds its timestamp.
TemporalStatsJson(stats) == IF stats[1] = <<>> THEN "ok" ELSE "TypeError"
\* The dict create_transformed_data_response returns.
ResponseJson(response) == IF response.s4c_std = "NaN" THEN "ValueError" ELSE "ok"


(***************************************************************************)
(* The analyzer object.                                                    *)
(***************************************************************************)
NoFrame == [index |-> <<>>, columns |-> <<>>, cells |-> <<>>]

AInit ==
    /\ lat_data = NoFrame
    /\ lon_data = NoFrame
    /\ s4c_data = NoFrame
    /\ combined_data = None
    /\ active_satellites = <<>>
    /\ astate = "new"
    /\ sat_stats = None
    /\ temporal_stats = None
    /\ transformed_response = NoResponseYet
    /\ transformed_data = None

\* The batches load_data is given: a latitude index of at most MaxRows rows,
\* each label a date or blank (NaT once loaded),
\* at most MaxMissing missing cells, and matrices that share index and
\* columns ("same") or do not: the longitude file lacks the last row
\* ("lonRow"), the S4C file lacks the last column ("s4cCol").
Shapes == {"same", "lonRow", "s4cCol"}
CellsOf(index) == {"lat", "lon", "s4c"} \X (DOMAIN index) \X Range(Satellites)

\* pd.read_csv(file, index_col=0) of the three files (analyzer.py:19-21).
InputFiles(index, shape, missing) ==
    LET cells(matrix) ==
            [p \in (DOMAIN index) \X Range(Satellites) |->
                IF <<matrix, p[1], p[2]>> \in missing
                THEN NaN ELSE Some(FileValue(matrix, p[1], p[2]))]
    IN  [lat |-> DataFrame(index, Satellites, cells("lat")),
         lon |-> DataFrame(IF shape = "lonRow" THEN DropLast(index) ELSE index,
                           Satellites, cells("lon")),
         s4c |-> DataFrame(index,
                           IF shape = "s4cCol" THEN DropLast(Satellites)
                                               ELSE Satellites,
                           cells("s4c"))]

\* analyzer.py:17-28, on matrices of at most max_rows rows.
LoadRows(max_rows) ==
    /\ astate = "new"
    /\ \E index \in SeqsUpTo(Labels, max_rows), shape \in Shapes :
         \E missing \in SubsetsUpTo(CellsOf(index), MaxMissing) :
            LET files == InputFiles(index, shape, missing)
            IN  /\ lat_data' = files.lat
                /\ lon_data' = files.lon
                /\ s4c_data' = files.s4c
                /\ active_satellites' = ActiveSatellites(files.lat)
    /\ astate' = "loaded"
    /\ UNCHANGED <<combined_data, sat_stats, temporal_stats, transformed_response,
                   transformed_data, bvars, cvars, wvars, svars, tvars>>

\* analyzer.py:17-28
LoadData == LoadRows(MaxRows)

\* analyzer.py:30-48, completing: combined_data is assigned.
MergeData ==
    /\ astate = "loaded"
    /\ LET merged == merge_data(lat_data, lon_data, s4c_data, active_satellites)
       IN  /\ ~merged.raised
           /\ combined_data' = Some(merged.merged_records)
    /\ astate' = "merged"
    /\ UNCHANGED <<lat_data, lon_data, s4c_data, active_satellites,
                   sat_stats, temporal_stats, transformed_response,
                   transformed_data, bvars, cvars, wvars, svars, tvars>>

\* analyzer.py:30-48, raising at line 35-39: combined_data keeps its value.
MergeDataRaises ==
    /\ astate = "loaded"
    /\ merge_data(lat_data, lon_data, s4c_data, active_satellites).raised
    /\ astate' = "raised"
    /\ UNCHANGED <<lat_data, lon_data, s4c_data, active_satellites,
                   combined_data, sat_stats, temporal_stats, transformed_response,
                   transformed_data, bvars, cvars, wvars, svars, tvars>>

\* analyzer.py:92-94: a merge whose records all have a NaT timestamp gives
\* the Grouper an index with no first and no last minute.  The source fixes
\* no pandas release, and whether the grouping then returns a frame
\* with no row or raises is the release's choice: both outcomes are kept.
Undated(combined) ==
    combined # None /\ combined[1] # <<>> /\ Dated(combined[1]) = <<>>

\* analyzer.py:83-96, returning: the two frames of statistics.
AnalyzeStatistics ==
    /\ astate = "merged"
    /\ LET stats == analyze_statistics(combined_data)
       IN  /\ ~stats.raised
           /\ sat_stats' = stats.sat_stats
           /\ temporal_stats' = stats.temporal_stats
    /\ astate' = "analyzed"
    /\ UNCHANGED <<lat_data, lon_data, s4c_data, active_satellites, combined_data,
                   transformed_response, transformed_data,
                   bvars, cvars, wvars, svars, tvars>>

\* analyzer.py:83-96, raising at line 88, or at line 92 on a merge with no
\* dated record; sat_stats of line 88 is a local and is lost.
AnalyzeStatisticsRaises ==
    /\ astate = "merged"
    /\ analyze_statistics(combined_data).raised \/ Undated(combined_data)
    /\ astate' = "stats_raised"
    /\ UNCHANGED <<lat_data, lon_data, s4c_data, active_satellites, combined_data,
                   sat_stats, temporal_stats, transformed_response,
                   transformed_data, bvars, cvars, wvars, svars, tvars>>

\* analyzer.py:160-224, on an analyzer that has merged.
CreateTransformedDataResponse ==
    /\ astate \in {"merged", "analyzed"}
    /\ transformed_response.status = "none"
    /\ transformed_response' =
           create_transformed_data_response(combined_data, active_satellites, lat_data)
    /\ UNCHANGED <<lat_data, lon_data, s4c_data, active_satellites, combined_data,
                   astate, sat_stats, temporal_stats, transformed_data,
                   bvars, cvars, wvars, svars, tvars>>

\* analyzer.py:50-81, on an analyzer that has merged.
TransformToNewFormat ==
    /\ astate \in {"merged", "analyzed", "stats_raised"}
    /\ transformed_data = None
    /\ transformed_data' = Some(transform_to_new_format(combined_data))
    /\ UNCHANGED <<lat_data, lon_data, s4c_data, active_satellites, combined_data,
                   astate, sat_stats, temporal_stats, transformed_response,
                   bvars, cvars, wvars, svars, tvars>>

(***************************************************************************)
(* backend/main.py: POST /analyze/.  The handler is a coroutine without an *)
(* await, so one request runs from its first line to its last before       *)
(* another request is served.  A cached item is named by the request that  *)
(* stored it, and carries what the rendering of its endpoint makes of it.  *)
(***************************************************************************)
Item(request, json) == Some([by |-> request, json |-> json])

\* main.py:52-57: the keys of the cache.
CacheKeys == {"combined_data", "transformed_data", "sat_stats", "temporal_stats",
              "plotly_fig", "folium_map_html", "analyzer_instance"}

\* main.py:45-46: a request arrives; analyzer = GPSScintillationAnalyzer()
ReceiveAnalyze ==
    /\ bpc = "idle"
    /\ requests < MaxRequests
    /\ requests' = requests + 1
    /\ reply' = "none"
    /\ bpc' = "load"
    /\ lat_data' = NoFrame
    /\ lon_data' = NoFrame
    /\ s4c_data' = NoFrame
    /\ combined_data' = None
    /\ active_satellites' = <<>>
    /\ astate' = "new"
    /\ sat_stats' = None
    /\ temporal_stats' = None
    /\ transformed_response' = NoResponseYet
    /\ transformed_data' = None
    /\ UNCHANGED <<cache, last_ok, got, cvars, wvars, svars, tvars>>

\* The statement of load_data that raises: the read of the latitude, the
\* longitude or the S4C file (analyzer.py:19, 20, 21: the uploaded file is
\* not a CSV table), or the conversion of a row label that is not a date
\* (line 25).
RaisingStatements == {"read_lat", "read_lon", "read_s4c", "to_datetime"}

\* main.py:49 with analyzer.py:19-25: load_data raises, on files of at most
\* max_rows rows.  The attributes assigned before the statement that raises
\* keep the frames read; active_satellites (line 28) is not reached.  The
\* frames of a batch with a label that is not a date hold the labels as
\* the file gives them; the label itself is not told apart here.
LoadRowsRaises(max_rows) ==
    /\ bpc = "load"
    /\ astate = "new"
    /\ \E index \in SeqsUpTo(Labels, max_rows), shape \in Shapes,
          at \in RaisingStatements :
         \E missing \in SubsetsUpTo(CellsOf(index), MaxMissing) :
            LET files == InputFiles(index, shape, missing)
            IN  /\ lat_data' = IF at = "read_lat" THEN NoFrame ELSE files.lat
                /\ lon_data' = IF at \in {"read_lat", "read_lon"}
                                THEN NoFrame ELSE files.lon
                /\ s4c_data' = IF at = "to_datetime" THEN files.s4c ELSE NoFrame
    /\ astate' = "raised"
    /\ UNCHANGED <<active_satellites, combined_data,
                   sat_stats, temporal_stats, transformed_response,
                   transformed_data, bvars, cvars, wvars, svars, tvars>>

\* main.py:49 with analyzer.py:19-25
LoadDataRaises == LoadRowsRaises(MaxRows)

\* main.py:52-53: the results of merge_data and transform_to_new_format are
\* stored.
CacheMerged ==
    /\ bpc = "load"
    /\ astate = "merged"
    /\ cache' = [cache EXCEPT
                    !["combined_data"]    = Item(requests, CombinedJson(combined_data)),
                    !["transformed_data"] = Item(requests, "ok")]
    /\ transformed_data' = Some(transform_to_new_format(combined_data))
    /\ bpc' = "stats"
    /\ UNCHANGED <<requests, reply, last_ok, got, lat_data, lon_data, s4c_data,
                   combined_data, active_satellites, astate, sat_stats,
                   temporal_stats, transformed_response, cvars, wvars, svars, tvars>>

\* main.py:54-66: the statistics, the two plots and the analyzer are
\* stored, and the handler returns its dict.  The dict is rendered after the
\* handler, outside its try: a std of NaN in it raises ValueError and the
\* request is answered with status 500, the cache being complete.
CacheResults ==
    /\ bpc = "stats"
    /\ astate = "analyzed"
    /\ LET response == create_transformed_data_response(combined_data, active_satellites,
                                                        lat_data)
       IN  /\ cache' = [cache EXCEPT
                           !["sat_stats"]         = Item(requests, SatStatsJson(sat_stats)),
                           !["temporal_stats"]    = Item(requests,
                                                         TemporalStatsJson(temporal_stats)),
                           !["plotly_fig"]        = Item(requests, "ok"),
                           !["folium_map_html"]   = Item(requests, "ok"),
                           !["analyzer_instance"] = Item(requests, ResponseJson(response))]
           /\ transformed_response' = response
           /\ reply' = IF ResponseJson(response) = "ok" THEN "ok" ELSE "error"
           /\ last_ok' = IF ResponseJson(response) = "ok" THEN requests ELSE last_ok
    /\ bpc' = "idle"
    /\ UNCHANGED <<requests, got, lat_data, lon_data, s4c_data, combined_data,
                   active_satellites, astate, sat_stats, temporal_stats,
                   transformed_data, cvars, wvars, svars, tvars>>

\* main.py:67-68: an exception of any of the calls is answered with status 500.
AnalyzeError ==
    /\ bpc \in {"load", "stats"}
    /\ astate \in {"raised", "stats_raised"}
    /\ reply' = "error"
    /\ bpc' = "idle"
    /\ UNCHANGED <<cache, requests, last_ok, got, avars, cvars, wvars, svars, tvars>>

\* main.py:71-75, and the tests of lines 93, 127 and 137 on the key
\* "analyzer_instance": the item of the key is found, or the answer is 404.
\* (GetWhenComplete: the faulty variant that answers 404 until every key is
\* stored.)
GetWhenComplete(store, key) ==
    IF \E k \in DOMAIN store : store[k] = None THEN "404" ELSE "found"
get_cached_item(store, key) ==
    IF store[key] = None THEN "404" ELSE "found"

\* main.py:77-173: the GET endpoints and the cache key each looks up first.
Endpoints == {"/data/combined", "/data/transformed", "/data/transformed-response",
              "/stats/satellite", "/stats/temporal", "/plots/plotly", "/plots/folium",
              "/analysis/summary", "/analysis/complete-report"}
KeyOf(path) ==
    CASE path = "/data/combined"    -> "combined_data"
      [] path = "/data/transformed" -> "transformed_data"
      [] path = "/stats/satellite"  -> "sat_stats"
      [] path = "/stats/temporal"   -> "temporal_stats"
      [] path = "/plots/plotly"     -> "plotly_fig"
      [] path = "/plots/folium"     -> "folium_map_html"
      [] OTHER                      -> "analyzer_instance"

\* main.py:77-173: the status a GET request is answered with.  404 when the
\* key is not in the cache; 500 when the rendering of the item raises; the
\* summary (analyzer.py:226-266) holds finite numbers only; the complete
\* report holds the response, the summary and both statistics.
Respond(store, path) ==
    IF get_cached_item(store, KeyOf(path)) = "404" THEN "404"
    ELSE IF path = "/analysis/summary" THEN "200"
    ELSE IF path = "/analysis/complete-report"
    THEN IF "404" \in {get_cached_item(store, "sat_stats"),
                       get_cached_item(store, "temporal_stats")} THEN "404"
         ELSE IF \A k \in {"analyzer_instance", "sat_stats", "temporal_stats"} :
                    store[k][1].json = "ok"
              THEN "200" ELSE "500"
    ELSE IF store[KeyOf(path)][1].json = "ok" THEN "200" ELSE "500"

\* main.py:77-173: a GET request, served between two POST requests; at is
\* the number of POST requests served before it.
GetCachedItem ==
    /\ bpc = "idle"
    /\ \E path \in Endpoints :
          got' = [path |-> path, key |-> KeyOf(path), status |-> Respond(cache, path),
                  at |-> requests]
    /\ UNCHANGED <<cache, requests, reply, last_ok, bpc, avars, cvars, wvars, svars, tvars>>

(***************************************************************************)
(* The processor (automated_processor.py) and the files of its data folder *)
(***************************************************************************)
\* A file: absent, or its rows; a file that exists and cannot be parsed as
\* CSV (zero bytes, binary garbage) has readable = FALSE.
AbsentFile    == [exists |-> FALSE, readable |-> FALSE, rows |-> <<>>]
CsvFile(rows) == [exists |-> TRUE,  readable |-> TRUE,  rows |-> rows]
CorruptFile   == [exists |-> TRUE,  readable |-> FALSE, rows |-> <<>>]


\* automated_processor.py:172 and app.py:229: S4C >= 0.4, S4C held as a
\* fixed-point number with six decimals.
AlertThreshold == 400000
\* automated_processor.py:192 and app.py:249: days_diff <= 60
RetentionDays == 60

\* A Time string "YYYY-MM-DD HH:MM:SS" is <<day, tick of the day>>;
\* pd.to_datetime reads it into an instant (ticks), str() of a Timestamp
\* writes the instant back.
to_datetime(time) == time[1] * TicksPerDay + time[2]
strftime(instant) == <<instant \div TicksPerDay, instant % TicksPerDay>>

TimeStrings == {strftime(n) : n \in 0..(TicksPerDay - 1)}
S4CValues   == {AlertThreshold - 1, AlertThreshold}
\* NormalizedRecords as the analysis API returns them.
Records == [Satellite : {"G01"}, Time : TimeStrings, S4C : S4CValues,
            Lat : {13}, Lon : {100}]
\* The wall clock readings: the start of day 0, and the readings of the two
\* days that start RetentionDays later.
NowValues == {0} \cup {RetentionDays * TicksPerDay + d : d \in 0..(2 * TicksPerDay - 1)}

\* existing_df['Time'].max() (automated_processor.py:185-186, app.py:242-243)
\* (LatestByLast: the faulty variant that reads the last row.)
LatestByLast(rows) == to_datetime(rows[Len(rows)].Time)
latest_record_date(rows) == SetMax({to_datetime(rows[i].Time) : i \in DOMAIN rows})

\* (current_date - latest_record_date).days (automated_processor.py:190,
\* app.py:247): whole days, rounded toward minus infinity.
\* (CeilingDays: the faulty variant that counts a started day as a day.)
CeilingDays(current_date, latest) == -((latest - current_date) \div TicksPerDay)
days_diff(current_date, latest) == (current_date - latest) \div TicksPerDay

\* df[df['S4C'] >= 0.4] (automated_processor.py:172)
\* (AboveThreshold: the faulty variant with a strict comparison; NoFilter:
\* the faulty variant that keeps every record.)
NoFilter(record) == record.S4C >= 0
AboveThreshold(record) == record.S4C > AlertThreshold
IsAlert(record) == record.S4C >= AlertThreshold

\* existing_df after line 185 / 242 and after to_csv: each row with its Time
\* read and written back.
Rewritten(rows) ==
    [i \in DOMAIN rows |-> [rows[i] EXCEPT !.Time = strftime(to_datetime(rows[i].Time))]]

\* The 60-day decision of automated_processor.py:192-200.
\* (AlwaysAppend, AlwaysReplace: the faulty variants without the age test.)
AlwaysAppend(existing, alert_df, current_date)  == Rewritten(existing) \o alert_df
AlwaysReplace(existing, alert_df, current_date) == alert_df
\* (AppendUnseen: the faulty variant that leaves out a candidate the log
\* holds already.)
AppendUnseen(existing, alert_df, current_date) ==
    IF days_diff(current_date, latest_record_date(existing)) <= RetentionDays
    THEN Rewritten(existing)
         \o SelectSeq(alert_df, LAMBDA r : r \notin Range(Rewritten(existing)))
    ELSE alert_df
SixtyDayLogic(existing, alert_df, current_date) ==
    IF days_diff(current_date, latest_record_date(existing)) <= RetentionDays
    THEN Rewritten(existing) \o alert_df
    ELSE alert_df

\* automated_processor.py:201-206: the log is empty or absent.
\* (WriteReversed, WriteFirst: faulty variants that reorder or truncate.)
WriteReversed(alert_df) == [i \in DOMAIN alert_df |-> alert_df[Len(alert_df) + 1 - i]]
WriteFirst(alert_df)    == IF alert_df = <<>> THEN <<>> ELSE <<alert_df[1]>>
WriteNew(alert_df) == alert_df

\* automated_processor.py:156-214. [ok, file]: the return value and the alert
\* file afterwards. A frame built from no record has no column, df['S4C']
\* raises KeyError at line 172; an alert file that exists and cannot be
\* parsed makes pd.read_csv raise at line 181; the except clause returns
\* False.
generate_s4c_alert_file(recs, file, current_date) ==
    LET alert_df == SelectSeq(recs, IsAlert)
    IN  IF recs = <<>> THEN [ok |-> FALSE, file |-> file]
        ELSE IF file.exists
        THEN IF ~file.readable
             THEN [ok |-> FALSE, file |-> file]
             ELSE IF Len(file.rows) > 0
                  THEN [ok |-> TRUE,
                        file |-> CsvFile(SixtyDayLogic(file.rows, alert_df, current_date))]
                  ELSE [ok |-> TRUE, file |-> CsvFile(WriteNew(alert_df))]
        ELSE [ok |-> TRUE, file |-> CsvFile(WriteNew(alert_df))]

\* app.py:229
FilterIsAlert(record) == record.S4C >= AlertThreshold
\* app.py:249-257
FilterSixtyDayLogic(existing, alert_df, current_date) ==
    IF days_diff(current_date, latest_record_date(existing)) <= RetentionDays
    THEN Rewritten(existing) \o alert_df
    ELSE alert_df

\* app.py:207-270. [ok, file], as above; data is data.csv.
filter_s4c_data(data, file, current_date) ==
    IF ~data.exists THEN [ok |-> FALSE, file |-> file]
    ELSE IF ~data.readable THEN [ok |-> FALSE, file |-> file]
    ELSE LET alert_df == SelectSeq(data.rows, FilterIsAlert)
         IN  IF Len(alert_df) = 0 THEN [ok |-> TRUE, file |-> file]
             ELSE IF file.exists
                  THEN IF ~file.readable
                       THEN [ok |-> FALSE, file |-> file]
                       ELSE IF Len(file.rows) > 0
                            THEN [ok |-> TRUE,
                                  file |-> CsvFile(FilterSixtyDayLogic(file.rows, alert_df,
                                                                       current_date))]
                            ELSE [ok |-> TRUE, file |-> CsvFile(alert_df)]
                  ELSE [ok |-> TRUE, file |-> CsvFile(alert_df)]

\* What the analysis API answers (automated_processor.py:92-102): no
\* response (an error status or an exception), a JSON body without the
\* records keys, or a body with a list of records.
NoResponse     == [status |-> "none",   records |-> <<>>]
NoKeys         == [status |-> "nokeys", records |-> <<>>]
Response(recs) == [status |-> "ok",     records |-> recs]

\* automated_processor.py:104-123
\* (ExtractOrPlaceholder: the faulty variant that answers missing keys or an
\* empty list with a placeholder record.)
ExtractOrPlaceholder(response) ==
    IF response.status = "none" THEN <<>>
    ELSE IF response.records # <<>> THEN response.records
    ELSE <<[Satellite |-> "G01", Time |-> <<0, 0>>, S4C |-> AlertThreshold,
            Lat |-> 13, Lon |-> 100]>>
extract_records_from_response(response) ==
    IF response.status = "ok" THEN response.records ELSE <<>>

AlertRows == {r \in Records : r.S4C >= AlertThreshold}

\* Before the first operation: no data.csv, nothing in the repository, no
\* operation before.
NoFolder == [output_file |-> AbsentFile,
             github |-> [data |-> AbsentFile, alert |-> AbsentFile]]
NoOperation == [ran |-> "none", batch |-> <<>>, alert_at_start |-> AbsentFile,
                now |-> 0, last_step |-> 0, result |-> "none"]

\* The data folder a run starts with: no data.csv yet, and an alert log
\* that is absent, unreadable, empty, or holds rows written by earlier runs.
CInit ==
    /\ pc = "idle"
    /\ api_response = NoResponse
    /\ records = <<>>
    /\ output_file = AbsentFile
    /\ alert_file \in {AbsentFile, CorruptFile}
                      \cup {CsvFile(rows) : rows \in SeqsUpTo(AlertRows, MaxLog)}
    /\ github = [data |-> AbsentFile, alert |-> AbsentFile]
    /\ now = 0
    /\ result = "none"
    /\ ops = 0
    /\ ran = "none"
    /\ data_arg = AbsentFile
    /\ alert_at_start = AbsentFile
    /\ last_step = 0
    /\ step_log = <<>>
    /\ folder_at_start = NoFolder
    /\ prev = NoOperation
    /\ success_count = 0

Abort(step) ==
    /\ pc' = "idle"
    /\ result' = "False"
    /\ last_step' = step
    /\ step_log' = Append(step_log, <<step, FALSE>>)

\* automated_processor.py:316-322: a cycle starts; the clock has moved on.
StartCycle ==
    /\ pc = "idle"
    /\ ops < MaxOps
    /\ ops' = ops + 1
    /\ ran' = "cycle"
    /\ \E t \in NowValues : t >= now /\ now' = t
    /\ pc' = "check"
    /\ alert_at_start' = alert_file
    /\ step_log' = <<>>
    /\ folder_at_start' = [output_file |-> output_file, github |-> github]
    /\ prev' = [ran |-> ran, batch |-> IF ran = "filter" THEN data_arg.rows ELSE records,
                alert_at_start |-> alert_at_start, now |-> now, last_step |-> last_step,
                result |-> result]
    /\ api_response' = NoResponse
    /\ records' = <<>>
    /\ last_step' = 0
    /\ result' = "none"
    /\ UNCHANGED <<output_file, alert_file, github, data_arg, success_count,
                   avars, bvars, wvars, svars, tvars>>

\* test_automation.py:13-77 (test_api_connection): steps 1 to 4 of a cycle
\* and then upload_to_github, without the alert step; the clock is not read.
\* The steps are logged under the numbers they have in a cycle.
TestApiConnection ==
    /\ pc = "idle"
    /\ ops < MaxOps
    /\ ops' = ops + 1
    /\ ran' = "test_api"
    /\ pc' = "check"
    /\ alert_at_start' = alert_file
    /\ step_log' = <<>>
    /\ folder_at_start' = [output_file |-> output_file, github |-> github]
    /\ prev' = [ran |-> ran, batch |-> IF ran = "filter" THEN data_arg.rows ELSE records,
                alert_at_start |-> alert_at_start, now |-> now, last_step |-> last_step,
                result |-> result]
    /\ api_response' = NoResponse
    /\ records' = <<>>
    /\ last_step' = 0
    /\ result' = "none"
    /\ UNCHANGED <<output_file, alert_file, github, now, data_arg, success_count,
                   avars, bvars, wvars, svars, tvars>>

\* Step 1, automated_processor.py:325-327 with 52-62: an input file is missing.
CheckFilesMissing ==
    /\ pc = "check"
    /\ Abort(1)
    /\ UNCHANGED <<api_response, records, output_file, alert_file, github, now,
                   ops, ran, data_arg, alert_at_start, folder_at_start, prev,
                   success_count,
                   avars, bvars, wvars, svars, tvars>>

\* Step 1: the three input files exist.
CheckFilesOk ==
    /\ pc = "check"
    /\ pc' = "api"
    /\ last_step' = 1
    /\ step_log' = Append(step_log, <<1, TRUE>>)
    /\ UNCHANGED <<api_response, records, output_file, alert_file, github, now,
                   result, ops, ran, data_arg, alert_at_start, folder_at_start, prev,
                   success_count,
                   avars, bvars, wvars, svars, tvars>>

\* Step 2, automated_processor.py:330-333 with 64-102: no usable response
\* (a status other than 200, an exception, or a body that is empty).
ApiFails ==
    /\ pc = "api"
    /\ api_response' = NoResponse
    /\ Abort(2)
    /\ UNCHANGED <<records, output_file, alert_file, github, now,
                   ops, ran, data_arg, alert_at_start, folder_at_start, prev,
                   success_count,
                   avars, bvars, wvars, svars, tvars>>

\* Step 2: status 200 and a JSON body.
ApiOk ==
    /\ pc = "api"
    /\ \E body \in {NoKeys} \cup {Response(recs) : recs \in SeqsUpTo(Records, MaxBatch)} :
          api_response' = body
    /\ pc' = "extract"
    /\ last_step' = 2
    /\ step_log' = Append(step_log, <<2, TRUE>>)
    /\ UNCHANGED <<records, output_file, alert_file, github, now,
                   result, ops, ran, data_arg, alert_at_start, folder_at_start, prev,
                   success_count,
                   avars, bvars, wvars, svars, tvars>>

\* Step 3, automated_processor.py:336-339: no records.
ExtractNone ==
    /\ pc = "extract"
    /\ extract_records_from_response(api_response) = <<>>
    /\ records' = <<>>
    /\ Abort(3)
    /\ UNCHANGED <<api_response, output_file, alert_file, github, now,
                   ops, ran, data_arg, alert_at_start, folder_at_start, prev,
                   success_count,
                   avars, bvars, wvars, svars, tvars>>

\* Step 3: at least one record.
ExtractOk ==
    /\ pc = "extract"
    /\ extract_records_from_response(api_response) # <<>>
    /\ records' = extract_records_from_response(api_response)
    /\ pc' = "save"
    /\ last_step' = 3
    /\ step_log' = Append(step_log, <<3, TRUE>>)
    /\ UNCHANGED <<api_response, output_file, alert_file, github, now,
                   result, ops, ran, data_arg, alert_at_start, folder_at_start, prev,
                   success_count,
                   avars, bvars, wvars, svars, tvars>>

\* Step 4, automated_processor.py:342-344 with 139-154: writing data.csv
\* raises (the folder is not writable); data.csv keeps its content.
SaveCsvFails ==
    /\ pc = "save"
    /\ Abort(4)
    /\ UNCHANGED <<api_response, records, output_file, alert_file, github, now,
                   ops, ran, data_arg, alert_at_start, folder_at_start, prev,
                   success_count,
                   avars, bvars, wvars, svars, tvars>>

\* Step 4: data.csv is written.  A cycle goes on to the alert step
\* (automated_processor.py:346), test_api_connection to the upload
\* (test_automation.py:59-61).
SaveCsvOk ==
    /\ pc = "save"
    /\ output_file' = CsvFile(records)
    /\ pc' = IF ran = "test_api" THEN "upload" ELSE "alert"
    /\ last_step' = 4
    /\ step_log' = Append(step_log, <<4, TRUE>>)
    /\ UNCHANGED <<api_response, records, alert_file, github, now,
                   result, ops, ran, data_arg, alert_at_start, folder_at_start, prev,
                   success_count,
                   avars, bvars, wvars, svars, tvars>>

\* Step 5, automated_processor.py:347-349: generate_s4c_alert_file
\* returned False.
AlertFails ==
    /\ pc = "alert"
    /\ LET r == generate_s4c_alert_file(records, alert_file, now)
       IN  /\ ~r.ok
           /\ alert_file' = r.file
    /\ Abort(5)
    /\ UNCHANGED <<api_response, records, output_file, github, now,
                   ops, ran, data_arg, alert_at_start, folder_at_start, prev,
                   success_count,
                   avars, bvars, wvars, svars, tvars>>

\* Step 5: generate_s4c_alert_file returned True.
AlertOk ==
    /\ pc = "alert"
    /\ LET r == generate_s4c_alert_file(records, alert_file, now)
       IN  /\ r.ok
           /\ alert_file' = r.file
    /\ pc' = "upload"
    /\ last_step' = 5
    /\ step_log' = Append(step_log, <<5, TRUE>>)
    /\ UNCHANGED <<api_response, records, output_file, github, now,
                   result, ops, ran, data_arg, alert_at_start, folder_at_start, prev,
                   success_count,
                   avars, bvars, wvars, svars, tvars>>

\* automated_processor.py:216-273: the return value and the repository file
\* after one upload; a local file that does not exist is not uploaded
\* (line 227-229), a PUT that GitHub does not accept changes nothing.
upload_file_to_github(local, remote, accepted) ==
    [ok     |-> local.exists /\ accepted,
     remote |-> IF local.exists /\ accepted THEN local ELSE remote]

\* automated_processor.py:292: return success_count == 2
\* (UploadedEither: the faulty variant that is content with one upload.)
UploadedEither(count) == count >= 1
upload_to_github(count) == count = 2

\* Step 6, automated_processor.py:352-358 with 282-286: data.csv is uploaded,
\* accepted by GitHub or not.
UploadData ==
    /\ pc = "upload"
    /\ \E accepted \in BOOLEAN :
          LET r == upload_file_to_github(output_file, github.data, accepted)
          IN  /\ github' = [github EXCEPT !.data = r.remote]
              /\ success_count' = IF r.ok THEN 1 ELSE 0
    /\ pc' = "upload_log"
    /\ UNCHANGED <<api_response, records, output_file, alert_file, now, result,
                   ops, ran, data_arg, alert_at_start, last_step, step_log,
                   folder_at_start, prev,
                   avars, bvars, wvars, svars, tvars>>

\* Step 6, automated_processor.py:288-292: log_s4c_alert.csv is uploaded,
\* accepted by GitHub or not; the step succeeds when both uploads did.
UploadAlert ==
    /\ pc = "upload_log"
    /\ \E accepted \in BOOLEAN :
          LET r == upload_file_to_github(alert_file, github.alert, accepted)
              count == IF r.ok THEN success_count + 1 ELSE success_count
          IN  /\ github' = [github EXCEPT !.alert = r.remote]
              /\ success_count' = count
              /\ result' = Truth(upload_to_github(count))
              /\ step_log' = Append(step_log, <<6, upload_to_github(count)>>)
    /\ pc' = "idle"
    /\ last_step' = 6
    /\ UNCHANGED <<api_response, records, output_file, alert_file, now,
                   ops, ran, data_arg, alert_at_start, folder_at_start, prev,
                   avars, bvars, wvars, svars, tvars>>

\* The two files of the folder and of the repository.
FolderFiles == {"data", "alert"}

\* app.py:50-118 (GitHubUploader.upload_csv, also through quick_upload at
\* 273-286 and, file by file, through upload_multiple_csvs at 120-152 and
\* main at 154-199): one file of the folder is uploaded by hand to its path
\* in the repository.  A local file that does not exist raises
\* FileNotFoundError; a PUT that GitHub does not accept returns None.
UploadCsv ==
    /\ pc = "idle"
    /\ ops < MaxOps
    /\ ops' = ops + 1
    /\ ran' = "upload_csv"
    /\ alert_at_start' = alert_file
    /\ step_log' = <<>>
    /\ folder_at_start' = [output_file |-> output_file, github |-> github]
    /\ prev' = [ran |-> ran, batch |-> IF ran = "filter" THEN data_arg.rows ELSE records,
                alert_at_start |-> alert_at_start, now |-> now, last_step |-> last_step,
                result |-> result]
    /\ \E which \in FolderFiles, accepted \in BOOLEAN :
          LET local == IF which = "data" THEN output_file ELSE alert_file
          IN  /\ github' = IF local.exists /\ accepted
                           THEN [github EXCEPT ![which] = local] ELSE github
              /\ result' = IF ~local.exists THEN "FileNotFoundError"
                           ELSE IF accepted THEN "True" ELSE "False"
    /\ UNCHANGED <<pc, api_response, records, output_file, alert_file, now, data_arg,
                   last_step, success_count,
                   avars, bvars, wvars, svars, tvars>>

\* The data files filter_s4c_data is called on: the data.csv of the folder,
\* or another file the caller names.
DataFiles == {AbsentFile} \cup {CsvFile(rows) : rows \in SeqsUpTo(Records, MaxBatch)}

\* app.py:207-270 called by hand on the alert log of the folder, between
\* two cycles.
FilterS4cData ==
    /\ pc = "idle"
    /\ ops < MaxOps
    /\ ops' = ops + 1
    /\ ran' = "filter"
    /\ alert_at_start' = alert_file
    /\ step_log' = <<>>
    /\ folder_at_start' = [output_file |-> output_file, github |-> github]
    /\ prev' = [ran |-> ran, batch |-> IF ran = "filter" THEN data_arg.rows ELSE records,
                alert_at_start |-> alert_at_start, now |-> now, last_step |-> last_step,
                result |-> result]
    /\ \E t \in NowValues, data \in {output_file} \cup DataFiles :
          /\ t >= now
          /\ now' = t
          /\ data_arg' = data
          /\ LET r == filter_s4c_data(data, alert_file, t)
             IN  /\ alert_file' = r.file
                 /\ result' = Truth(r.ok)
    /\ UNCHANGED <<pc, api_response, records, output_file, github, last_step,
                   success_count,
                   avars, bvars, wvars, svars, tvars>>

(***************************************************************************)
(* Processes on one log_s4c_alert.csv: a processor in step 5 of its cycle, *)
(* a filter_s4c_data call of data/app.py, and a process that reads the     *)
(* file to upload it.  Nothing in the code orders them.  to_csv opens the  *)
(* file for writing, which empties it, and its rows reach the file when it *)
(* is closed (a log of the size modelled here fits the write buffer).      *)
(***************************************************************************)
\* The file after a writer's buffer (rows, with the header) is written from
\* the start of the file: rows that another writer put further down remain.
Overlay(current, rows) ==
    IF current.readable /\ Len(current.rows) > Len(rows)
    THEN CsvFile(rows \o SubSeq(current.rows, Len(rows) + 1, Len(current.rows)))
    ELSE CsvFile(rows)

\* automated_processor.py:167-192: the processor filters its batch, reads
\* the log and decides what to write.
ProcessorReads ==
    /\ wpc["processor"] = "idle"
    /\ \E recs \in SeqsUpTo(Records, MaxBatch) \ {<<>>} :
          LET r == generate_s4c_alert_file(recs, alert_file, now)
          IN  /\ r.ok
              /\ wcand' = [wcand EXCEPT !["processor"] = SelectSeq(recs, IsAlert)]
              /\ wout'  = [wout  EXCEPT !["processor"] = r.file.rows]
    /\ wpc' = [wpc EXCEPT !["processor"] = "decided"]
    /\ UNCHANGED <<seen, opened, avars, bvars, cvars, svars, tvars>>

\* automated_processor.py:181 raising: the log exists and cannot be parsed
\* as it is now; the batch is one a cycle passes, with at least one record.
ProcessorReadFails ==
    /\ wpc["processor"] = "idle"
    /\ \E recs \in SeqsUpTo(Records, MaxBatch) \ {<<>>} :
          ~generate_s4c_alert_file(recs, alert_file, now).ok
    /\ wpc' = [wpc EXCEPT !["processor"] = "failed"]
    /\ UNCHANGED <<wcand, wout, seen, opened, avars, bvars, cvars, svars, tvars>>

\* app.py:219-249: filter_s4c_data reads data.csv, filters, reads the log
\* and decides what to write; without a candidate it returns at once.
FilterReads ==
    /\ wpc["filter"] = "idle"
    /\ \E rows \in SeqsUpTo(Records, MaxBatch) :
          LET r == filter_s4c_data(CsvFile(rows), alert_file, now)
              alert_df == SelectSeq(rows, FilterIsAlert)
          IN  /\ r.ok
              /\ wcand' = [wcand EXCEPT !["filter"] = alert_df]
              /\ wout'  = [wout  EXCEPT !["filter"] = r.file.rows]
              /\ wpc'   = [wpc   EXCEPT !["filter"] =
                              IF Len(alert_df) = 0 THEN "done" ELSE "decided"]
    /\ UNCHANGED <<seen, opened, avars, bvars, cvars, svars, tvars>>

\* app.py:238 raising.
FilterReadFails ==
    /\ wpc["filter"] = "idle"
    /\ \E rows \in SeqsUpTo(Records, MaxBatch) :
          ~filter_s4c_data(CsvFile(rows), alert_file, now).ok
    /\ wpc' = [wpc EXCEPT !["filter"] = "failed"]
    /\ UNCHANGED <<wcand, wout, seen, opened, avars, bvars, cvars, svars, tvars>>

\* to_csv opens the log for writing (automated_processor.py:196, 200, 203,
\* 206; app.py:253, 257, 260, 263): the file exists with zero bytes.
OpenForWriting(w) ==
    /\ wpc[w] = "decided"
    /\ alert_file' = CorruptFile
    /\ wpc' = [wpc EXCEPT ![w] = "open"]
    /\ opened' = Append(opened, w)
    /\ UNCHANGED <<wcand, wout, seen, avars, bvars, svars,
                   pc, api_response, records, output_file, github, now, result,
                   ops, ran, data_arg, alert_at_start, folder_at_start, prev,
                   success_count,
                   last_step, step_log, tvars>>
ProcessorOpens == OpenForWriting("processor")
FilterOpens    == OpenForWriting("filter")

\* to_csv closes the log: the rows are in the file.
CloseAfterWriting(w) ==
    /\ wpc[w] = "open"
    /\ alert_file' = Overlay(alert_file, wout[w])
    /\ wpc' = [wpc EXCEPT ![w] = "done"]
    /\ UNCHANGED <<wcand, wout, seen, opened, avars, bvars, svars,
                   pc, api_response, records, output_file, github, now, result,
                   ops, ran, data_arg, alert_at_start, folder_at_start, prev,
                   success_count,
                   last_step, step_log, tvars>>
ProcessorCloses == CloseAfterWriting("processor")
FilterCloses    == CloseAfterWriting("filter")

\* automated_processor.py:227-234 (and upload_csv of data/app.py) in a
\* process of its own: the log is read as it is at that moment.
ReaderReads ==
    /\ seen = None
    /\ alert_file.exists
    /\ seen' = Some(alert_file)
    /\ UNCHANGED <<wpc, wcand, wout, opened, avars, bvars, cvars, svars, tvars>>

(***************************************************************************)
(* start_scheduler (automated_processor.py:360-384): one thread, which     *)
(* calls run_processing_cycle itself, once at once and then from           *)
(* schedule.run_pending().  A cycle takes any time.                        *)
(***************************************************************************)
\* automated_processor.py:372: every(15).minutes
Period == 15

\* Where the thread is after it has begun a cycle: inside the call, until
\* run_processing_cycle returns (automated_processor.py:376, and the job
\* call of run_pending at line 381).
\* (Detached: the faulty variant that hands the cycle to another thread and
\* goes on.)
Detached(site) == IF site = "initial" THEN "loop" ELSE "sleep"
Blocking(site) == IF site = "initial" THEN "test_cycle" ELSE "job"

\* automated_processor.py:360-372: the job is registered, due in 15 minutes.
StartScheduler ==
    /\ spc = "stopped"
    /\ started = 0
    /\ spc' = "scheduled"
    /\ next_run' = Some(clock + Period)
    /\ UNCHANGED <<clock, running, started, lateness, avars, bvars, cvars, wvars, tvars>>

\* automated_processor.py:376: the initial test cycle is called.
InitialCycle ==
    /\ spc = "scheduled"
    /\ spc' = Blocking("initial")
    /\ running' = running + 1
    /\ started' = started + 1
    /\ UNCHANGED <<clock, next_run, lateness, avars, bvars, cvars, wvars, tvars>>

\* Time passes while a cycle runs.
Tick ==
    /\ running > 0
    /\ clock < MaxClock
    /\ clock' = clock + 1
    /\ UNCHANGED <<spc, next_run, running, started, lateness,
                   avars, bvars, cvars, wvars, tvars>>

\* run_processing_cycle returns (automated_processor.py:327-358). After the
\* initial cycle the thread enters the loop; after a scheduled one the job
\* is due again 15 minutes from now.
CycleReturns ==
    /\ running > 0
    /\ running' = running - 1
    /\ spc' = IF spc = "test_cycle" THEN "loop"
              ELSE IF spc = "job" THEN "sleep" ELSE spc
    /\ next_run' = IF spc = "job" THEN Some(clock + Period) ELSE next_run
    /\ UNCHANGED <<clock, started, lateness, avars, bvars, cvars, wvars, tvars>>

\* automated_processor.py:381: run_pending finds the job due and calls it.
RunPendingDue ==
    /\ spc = "loop"
    /\ clock >= next_run[1]
    /\ started < MaxCycles
    /\ spc' = Blocking("job")
    /\ running' = running + 1
    /\ started' = started + 1
    /\ lateness' = clock - next_run[1]
    /\ UNCHANGED <<clock, next_run, avars, bvars, cvars, wvars, tvars>>

\* automated_processor.py:381: run_pending finds nothing due.
RunPendingIdle ==
    /\ spc = "loop"
    /\ clock < next_run[1]
    /\ spc' = "sleep"
    /\ UNCHANGED <<clock, next_run, running, started, lateness,
                   avars, bvars, cvars, wvars, tvars>>

\* automated_processor.py:382: time.sleep(1); the minute changes or not.
Sleep ==
    /\ spc = "sleep"
    /\ spc' = "loop"
    /\ \E d \in {0, 1} : clock + d <= MaxClock /\ clock' = clock + d
    /\ UNCHANGED <<next_run, running, started, lateness, avars, bvars, cvars, wvars, tvars>>

\* automated_processor.py:383-384: Ctrl+C ends the loop; a cycle that was
\* running is abandoned.
KeyboardInterrupt ==
    /\ spc \in {"loop", "sleep", "job"}
    /\ spc' = "interrupted"
    /\ running' = 0
    /\ UNCHANGED <<clock, next_run, started, lateness, avars, bvars, cvars, wvars, tvars>>

\* automated_processor.py:364-376: Ctrl+C before the try of line 379: during
\* the prints of lines 364-369, before the job is registered at line 372
\* (spc = "stopped"), after the registration, or with the initial cycle
\* under way.  KeyboardInterrupt is not an Exception, no except clause of
\* the cycle catches it, and it leaves start_scheduler uncaught: the loop is
\* never entered, a job not yet registered never is, and a cycle that was
\* running is abandoned.
KeyboardInterruptUncaught ==
    /\ spc \in {"stopped", "scheduled", "test_cycle"}
    /\ spc' = "raised"
    /\ running' = 0
    /\ UNCHANGED <<clock, next_run, started, lateness, avars, bvars, cvars, wvars, tvars>>

(***************************************************************************)
(* The parts of the system a specification leaves alone.                   *)
(***************************************************************************)
Writers == {"processor", "filter"}

NoGet == [path |-> "", key |-> "", status |-> "", at |-> 0]

\* main.py:34: cache = {}
BIdle ==
    /\ cache = [k \in CacheKeys |-> None]
    /\ requests = 0
    /\ reply = "none"
    /\ last_ok = 0
    /\ bpc = "idle"
    /\ got = NoGet

WIdle ==
    /\ wpc = [w \in Writers |-> "idle"]
    /\ wcand = [w \in Writers |-> <<>>]
    /\ wout = [w \in Writers |-> <<>>]
    /\ seen = None
    /\ opened = <<>>

SIdle ==
    /\ spc = "stopped"
    /\ clock = 0
    /\ next_run = None
    /\ running = 0
    /\ started = 0
    /\ lateness = 0

TIdle == twin_out = [w \in Writers |-> None]

NextCycle ==
    \/ StartCycle
    \/ CheckFilesMissing \/ CheckFilesOk
    \/ ApiFails \/ ApiOk
    \/ ExtractNone \/ ExtractOk
    \/ SaveCsvFails \/ SaveCsvOk
    \/ AlertFails \/ AlertOk
    \/ UploadData \/ UploadAlert
    \/ FilterS4cData
    \/ TestApiConnection
    \/ UploadCsv
InitCycle == AInit /\ BIdle /\ CInit /\ WIdle /\ SIdle /\ TIdle
SpecCycle == InitCycle /\ [][NextCycle]_vars

\* test_automation.py:79-99 (test_single_run): one operation on the folder,
\* a single call of run_processing_cycle, of filter_s4c_data, of
\* test_api_connection or of upload_csv, from any of the folder states of
\* CInit.
NextSingleRun ==
    \/ (ops = 0 /\ StartCycle)
    \/ CheckFilesMissing \/ CheckFilesOk
    \/ ApiFails \/ ApiOk
    \/ ExtractNone \/ ExtractOk
    \/ SaveCsvFails \/ SaveCsvOk
    \/ AlertFails \/ AlertOk
    \/ UploadData \/ UploadAlert
    \/ (ops = 0 /\ FilterS4cData)
    \/ (ops = 0 /\ TestApiConnection)
    \/ (ops = 0 /\ UploadCsv)
SpecSingleRun == InitCycle /\ [][NextSingleRun]_vars

\* Two cycles of one processor in a row, as start_scheduler runs them
\* (automated_processor.py:376, 381), on a folder whose alert log is absent
\* or empty.  The input files are what they were, or have lost their data:
\* the analysis API answers the second cycle with the batch it answered the
\* first with, or with no record.
InitTwoCycles == InitCycle /\ alert_file \in {AbsentFile, CsvFile(<<>>)}
NextTwoCycles ==
    \/ (ops <= 1 /\ StartCycle)
    \/ CheckFilesMissing \/ CheckFilesOk
    \/ ApiFails
    \/ (ApiOk /\ (ops = 1 \/ api_response'.records \in {prev.batch, <<>>}))
    \/ ExtractNone \/ ExtractOk
    \/ SaveCsvFails \/ SaveCsvOk
    \/ AlertOk
    \/ UploadData \/ UploadAlert
SpecTwoCycles == InitTwoCycles /\ [][NextTwoCycles]_vars

\* A cycle and its repetition on unchanged input files (the API answers
\* with the same batch), on a folder whose alert log holds one entry.
InitRetry == InitCycle /\ alert_file.readable /\ Len(alert_file.rows) = 1
NextRetry ==
    \/ (ops <= 1 /\ StartCycle)
    \/ CheckFilesMissing \/ CheckFilesOk
    \/ ApiFails
    \/ (ApiOk /\ (ops = 1 \/ api_response'.records = prev.batch))
    \/ ExtractNone \/ ExtractOk
    \/ SaveCsvFails \/ SaveCsvOk
    \/ AlertOk
    \/ UploadData \/ UploadAlert
SpecRetry == InitRetry /\ [][NextRetry]_vars

\* The two implementations of the alert-log update on one folder: a cycle
\* has executed steps 1 to 4, so the batch is in memory and in data.csv, and
\* the log and the clock are what step 5 will find.  Each implementation is
\* applied to this folder and what it returns and leaves is recorded; the
\* folder itself stays as it is, so both start from the same log.
InitTwin ==
    /\ AInit /\ BIdle /\ WIdle /\ SIdle /\ TIdle
    /\ pc = "alert"
    /\ records \in SeqsUpTo(Records, MaxBatch) \ {<<>>}
    /\ api_response = Response(records)
    /\ output_file = CsvFile(records)
    /\ alert_file \in {AbsentFile, CorruptFile}
                      \cup {CsvFile(rows) : rows \in SeqsUpTo(AlertRows, MaxLog)}
    /\ github = [data |-> AbsentFile, alert |-> AbsentFile]
    /\ now \in NowValues
    /\ result = "none"
    /\ ops = 1
    /\ ran = "cycle"
    /\ data_arg = AbsentFile
    /\ alert_at_start = alert_file
    /\ last_step = 4
    /\ step_log = <<<<1, TRUE>>, <<2, TRUE>>, <<3, TRUE>>, <<4, TRUE>>>>
    /\ folder_at_start = NoFolder
    /\ prev = NoOperation
    /\ success_count = 0

\* automated_processor.py:156-214 on the batch in memory.
TwinGenerate ==
    /\ pc = "alert"
    /\ twin_out["processor"] = None
    /\ twin_out' = [twin_out EXCEPT !["processor"] =
                       Some(generate_s4c_alert_file(records, alert_file, now))]
    /\ UNCHANGED <<avars, bvars, cvars, wvars, svars>>

\* app.py:207-270 on the data.csv of the folder.
TwinFilter ==
    /\ pc = "alert"
    /\ twin_out["filter"] = None
    /\ twin_out' = [twin_out EXCEPT !["filter"] =
                       Some(filter_s4c_data(output_file, alert_file, now))]
    /\ UNCHANGED <<avars, bvars, cvars, wvars, svars>>

NextTwin == TwinGenerate \/ TwinFilter
SpecTwin == InitTwin /\ [][NextTwin]_vars

CIdle ==
    /\ pc = "idle"
    /\ api_response = NoResponse
    /\ records = <<>>
    /\ output_file = AbsentFile
    /\ alert_file = AbsentFile
    /\ github = [data |-> AbsentFile, alert |-> AbsentFile]
    /\ now = 0
    /\ result = "none"
    /\ ops = 0
    /\ ran = "none"
    /\ data_arg = AbsentFile
    /\ alert_at_start = AbsentFile
    /\ last_step = 0
    /\ step_log = <<>>
    /\ folder_at_start = NoFolder
    /\ prev = NoOperation
    /\ success_count = 0

InitAnalyzer == AInit /\ BIdle /\ CIdle /\ WIdle /\ SIdle /\ TIdle
NextAnalyzer ==
    \/ LoadData
    \/ MergeData \/ MergeDataRaises
    \/ AnalyzeStatistics \/ AnalyzeStatisticsRaises
    \/ TransformToNewFormat
SpecAnalyzer == InitAnalyzer /\ [][NextAnalyzer]_vars

InitBackend == AInit /\ BIdle /\ CIdle /\ WIdle /\ SIdle /\ TIdle
NextBackend ==
    \/ ReceiveAnalyze
    \/ (bpc = "load" /\ LoadData)
    \/ LoadDataRaises
    \/ (bpc = "load" /\ MergeData)
    \/ (bpc = "load" /\ MergeDataRaises)
    \/ CacheMerged
    \/ (bpc = "stats" /\ AnalyzeStatistics)
    \/ (bpc = "stats" /\ AnalyzeStatisticsRaises)
    \/ CacheResults
    \/ AnalyzeError
SpecBackend == InitBackend /\ [][NextBackend]_vars

\* The POST and GET endpoints of main.py together: GET requests between
\* POST requests whose matrices have at most one row (such a batch can fail
\* in load_data, in merge_data and in analyze_statistics, and can succeed).
InitEndpoints == InitBackend
NextEndpoints ==
    \/ ReceiveAnalyze
    \/ (bpc = "load" /\ LoadRows(1))
    \/ LoadRowsRaises(1)
    \/ (bpc = "load" /\ MergeData)
    \/ (bpc = "load" /\ MergeDataRaises)
    \/ CacheMerged
    \/ (bpc = "stats" /\ AnalyzeStatistics)
    \/ (bpc = "stats" /\ AnalyzeStatisticsRaises)
    \/ CacheResults
    \/ AnalyzeError
    \/ GetCachedItem
SpecEndpoints == InitEndpoints /\ [][NextEndpoints]_vars

\* The analyzers create_transformed_data_response is applied to: one that
\* has loaded a latitude matrix of rows rows in which the first sats
\* satellites are active, one row label of which may be blank, and has
\* merged n_records records.
InitResponse ==
    /\ \E rows \in 0..MaxCoverageRows, sats \in 0..Len(Satellites) :
         \E n_records \in 0..(rows * sats), blank \in 0..rows :
            LET index == [i \in 1..rows |-> IF i = blank THEN NaT ELSE i]
                lat == DataFrame(index, Satellites,
                          [p \in (1..rows) \X Range(Satellites) |->
                              IF ColNo(p[2]) <= sats
                              THEN Some(FileValue("lat", p[1], p[2])) ELSE NaN])
                lon == DataFrame(index, Satellites,
                          [p \in (1..rows) \X Range(Satellites) |->
                              IF (p[1] - 1) * sats + ColNo(p[2]) <= n_records
                              THEN Some(FileValue("lon", p[1], p[2])) ELSE NaN])
                s4c == DataFrame(index, Satellites,
                          [p \in (1..rows) \X Range(Satellites) |->
                              Some(FileValue("s4c", p[1], p[2]))])
            IN  /\ lat_data = lat
                /\ lon_data = lon
                /\ s4c_data = s4c
                /\ active_satellites = ActiveSatellites(lat)
                /\ combined_data =
                       Some(merge_data(lat, lon, s4c, ActiveSatellites(lat)).merged_records)
    /\ astate = "merged"
    /\ sat_stats = None
    /\ temporal_stats = None
    /\ transformed_response = NoResponseYet
    /\ transformed_data = None
    /\ BIdle /\ CIdle /\ WIdle /\ SIdle /\ TIdle
NextResponse == CreateTransformedDataResponse
SpecResponse == InitResponse /\ [][NextResponse]_vars

InitScheduler == AInit /\ BIdle /\ CIdle /\ WIdle /\ SIdle /\ TIdle
NextScheduler ==
    \/ StartScheduler
    \/ InitialCycle
    \/ Tick
    \/ CycleReturns
    \/ RunPendingDue \/ RunPendingIdle
    \/ Sleep
    \/ KeyboardInterrupt
    \/ KeyboardInterruptUncaught
SpecScheduler == InitScheduler /\ [][NextScheduler]_vars

\* The folder the processes start on: any log of CInit, no process at work.
InitConcurrent ==
    /\ AInit /\ BIdle /\ WIdle /\ SIdle /\ TIdle
    /\ pc = "idle"
    /\ api_response = NoResponse
    /\ records = <<>>
    /\ output_file = AbsentFile
    /\ alert_file \in {AbsentFile, CorruptFile}
                      \cup {CsvFile(rows) : rows \in SeqsUpTo(AlertRows, MaxLog)}
    /\ alert_at_start = alert_file
    /\ github = [data |-> AbsentFile, alert |-> AbsentFile]
    /\ now = 0
    /\ result = "none"
    /\ ops = 0
    /\ ran = "none"
    /\ data_arg = AbsentFile
    /\ last_step = 0
    /\ step_log = <<>>
    /\ folder_at_start = NoFolder
    /\ prev = NoOperation
    /\ success_count = 0
NextConcurrent ==
    \/ ProcessorReads \/ ProcessorReadFails
    \/ ProcessorOpens \/ ProcessorCloses
    \/ FilterReads \/ FilterReadFails
    \/ FilterOpens \/ FilterCloses
    \/ ReaderReads
SpecConcurrent == InitConcurrent /\ [][NextConcurrent]_vars

(***************************************************************************)
(* Properties of merge_data (SpecAnalyzer).                                *)
(***************************************************************************)
\* The matrix df holds a non-missing value at (t, s): read off the frame,
\* not through the lookup of the code.
HasValue(df, t, s) ==
    /\ s \in Range(df.columns)
    /\ \E i \in DOMAIN df.index : df.index[i] = t /\ df.cells[<<i, s>>] # NaN

Merged == combined_data[1]
HasRecord(t, s) ==
    \E k \in DOMAIN Merged : Merged[k].timestamp = t /\ Merged[k].satellite = s

\* C1: after a merge that completes, for every timestamp t of the latitude
\* index and every active satellite s there is a merged record for (t, s)
\* iff the latitude, longitude and S4C matrices all hold a non-missing value
\* at (t, s); every record is for such a pair, and no pair has two records.
C1_MergeComplete ==
    astate = "merged" =>
        /\ \A t \in Range(lat_data.index), s \in Range(active_satellites) :
              HasRecord(t, s) <=> /\ HasValue(lat_data, t, s)
                                  /\ HasValue(lon_data, t, s)
                                  /\ HasValue(s4c_data, t, s)
        /\ \A k \in DOMAIN Merged :
              /\ Merged[k].timestamp \in Range(lat_data.index)
              /\ Merged[k].satellite \in Range(active_satellites)
        /\ \A k, l \in DOMAIN Merged :
              (/\ Merged[k].timestamp = Merged[l].timestamp
               /\ Merged[k].satellite = Merged[l].satellite) => k = l

\* A merge that emitted a record and skipped a pair of an active satellite
\* whose latitude is present and whose longitude is missing.
C1_Witness ==
    /\ astate = "merged"
    /\ Len(Merged) >= 1
    /\ \E t \in Range(lat_data.index), s \in Range(active_satellites) :
          /\ HasValue(lat_data, t, s)
          /\ ~HasValue(lon_data, t, s)
          /\ HasValue(s4c_data, t, s)
          /\ ~HasRecord(t, s)

SatPos(s) == CHOOSE i \in DOMAIN active_satellites : active_satellites[i] = s
RowPos(t) == CHOOSE i \in DOMAIN lat_data.index : lat_data.index[i] = t

\* C10 as stated: the merged records are sorted ascending by timestamp, with
\* records of one timestamp in active-satellite order, for every latitude
\* matrix.
C10_SortedByTimestamp ==
    astate = "merged" =>
        \A k, l \in DOMAIN Merged :
            k < l => \/ Merged[k].timestamp < Merged[l].timestamp
                     \/ /\ Merged[k].timestamp = Merged[l].timestamp
                        /\ SatPos(Merged[k].satellite) < SatPos(Merged[l].satellite)

Ascending(index) == \A i, j \in DOMAIN index : i < j => index[i] < index[j]

\* C10 amended: the merged records follow the rows of the latitude matrix
\* from first to last, the records of one row in active-satellite order; so
\* they are sorted ascending by timestamp when the rows are.
C10_RowOrder ==
    astate = "merged" =>
        /\ \A k, l \in DOMAIN Merged :
              k < l => \/ RowPos(Merged[k].timestamp) < RowPos(Merged[l].timestamp)
                       \/ /\ Merged[k].timestamp = Merged[l].timestamp
                          /\ SatPos(Merged[k].satellite) < SatPos(Merged[l].satellite)
        /\ Ascending(lat_data.index) => C10_SortedByTimestamp

\* A merge over a latitude matrix whose rows descend in time, with records
\* of both rows and two records of one row.
C10_Witness ==
    /\ astate = "merged"
    /\ Len(lat_data.index) >= 2
    /\ lat_data.index[1] > lat_data.index[2]
    /\ \E k, l, m \in DOMAIN Merged :
          /\ Merged[k].timestamp # Merged[l].timestamp
          /\ Merged[l].timestamp = Merged[m].timestamp /\ l # m

(***************************************************************************)
(* Properties of the analysis of a batch (SpecAnalyzer, SpecBackend).      *)
(***************************************************************************)
RequestDone == bpc = "idle" /\ requests >= 1
\* The request that stored the item of a key.
StoredBy(k) == cache[k][1].by

\* C11 as stated: when the merge of a request found no pair with all three
\* values, the request is answered "ok", with statistics that have no row
\* and a response of zero records.
C11_EmptyMergeSucceeds ==
    (RequestDone /\ combined_data = Some(<<>>)) =>
        /\ reply = "ok"
        /\ sat_stats = Some(<<>>)
        /\ temporal_stats = Some(<<>>)
        /\ transformed_response.status = "success"
        /\ transformed_response.total_records = 0

\* C12 as stated: after a request that was answered with an error no cached
\* item is from that request, and at all times every cached item is from
\* the latest request that was answered "ok".
C12_CacheFromOneBatch ==
    RequestDone =>
        /\ reply = "error" =>
              \A k \in CacheKeys : cache[k] # None => StoredBy(k) # requests
        /\ \A k \in CacheKeys :
              IF last_ok = 0 THEN cache[k] = None
              ELSE cache[k] # None /\ StoredBy(k) = last_ok

NoDuplicateRows(index) == \A i, j \in DOMAIN index : index[i] = index[j] => i = j

\* A pair the merge looks up that the longitude or the S4C matrix has no
\* row or no column for.
Mismatched ==
    \E t \in Range(lat_data.index), s \in Range(active_satellites) :
        \/ t \notin Range(lon_data.index) \/ s \notin Range(lon_data.columns)
        \/ t \notin Range(s4c_data.index) \/ s \notin Range(s4c_data.columns)

\* C13 as stated: when the longitude or S4C matrix lacks a row or a column
\* of a pair that the merge looks up, the merge completes and has no record
\* for the pair.
C13_MismatchIsMissing ==
    (astate \notin {"new", "loaded"} /\ NoDuplicateRows(lat_data.index) /\ Mismatched) =>
        /\ astate # "raised"
        /\ combined_data # None
        /\ \A k \in DOMAIN Merged :
              /\ Merged[k].timestamp \in Range(lon_data.index)
              /\ Merged[k].satellite \in Range(s4c_data.columns)

Temporal == temporal_stats[1]
\* The clock minutes some merged record lies in; a record of a NaT timestamp
\* lies in none.
MinutesWithRecord ==
    {floor_minute(Merged[k].timestamp) :
        k \in {j \in DOMAIN Merged : Merged[j].timestamp # NaT}}

\* C19 as stated: the temporal statistics hold exactly one row per clock
\* minute with at least one merged record, and no row with a count of zero.
C19_NoEmptyBuckets ==
    astate = "analyzed" =>
        /\ {Temporal[i].timestamp : i \in DOMAIN Temporal} = MinutesWithRecord
        /\ Len(Temporal) = Cardinality(MinutesWithRecord)
        /\ \A i \in DOMAIN Temporal : Temporal[i].count >= 1

SatRows == sat_stats[1]

\* C20 as stated: in the per-satellite and the per-minute statistics the
\* standard deviation of a row is NaN iff the row counts exactly one record.
C20_StdNaNIffSingle ==
    astate = "analyzed" =>
        /\ \A i \in DOMAIN SatRows  : SatRows[i].std = NaN <=> SatRows[i].count = 1
        /\ \A i \in DOMAIN Temporal : Temporal[i].std = NaN <=> Temporal[i].count = 1

Abs(x) == IF x < 0 THEN -x ELSE x

\* C18: the data_coverage of a response is the text "0%" exactly when the
\* number of active satellites times the number of rows of the latitude
\* matrix is zero; otherwise it is 100 * records / (satellites * rows)
\* rounded to the nearest hundredth, written with two decimals and a "%",
\* the records being the normalized ones, which are the merged records with
\* a date; 15 records of 2 satellites and 10 rows give "75.00%".
C18_CoverageMath ==
    transformed_response.status = "success" =>
        LET n == transformed_response.total_records
            d == Len(active_satellites) * Len(lat_data.index)
            c == transformed_response.data_coverage
        IN  /\ n = Cardinality({k \in DOMAIN Merged : Merged[k].timestamp # NaT})
            /\ c = ZeroPercent <=> d = 0
            /\ c.suffix = "%"
            /\ d # 0 =>
                  /\ Len(c.decimals) = 2
                  /\ \A i \in 1..2 : c.decimals[i] \in 0..9
                  /\ 2 * Abs((100 * c.whole + 10 * c.decimals[1] + c.decimals[2]) * d
                             - 10000 * n) <= d
            /\ (Len(active_satellites) = 2 /\ Len(lat_data.index) = 10 /\ n = 15) =>
                  c = [whole |-> 75, decimals |-> <<0, 0>>, suffix |-> "%"]

\* The response of an analyzer with 2 active satellites, 10 rows and 15
\* records reads "75.00%".
C18_Witness ==
    /\ transformed_response.status = "success"
    /\ Len(active_satellites) = 2 /\ Len(lat_data.index) = 10
    /\ transformed_response.total_records = 15
    /\ transformed_response.data_coverage.whole = 75
    /\ transformed_response.data_coverage.decimals = <<0, 0>>

\* C25: a cached key is there only if a POST request stored it; no step
\* removes a key; from the end of a request that was answered "ok" on,
\* every key is there; and a GET request is answered 404 iff its key is
\* not there, so that it finds its item (and answers 200, or 500 when the
\* item cannot be rendered) whenever a request answered "ok" came before
\* it.
C25_ResultsAfterAnalysis ==
    /\ [](\A k \in CacheKeys : cache[k] # None => StoredBy(k) \in 1..requests)
    /\ [][\A k \in CacheKeys : cache[k] # None => cache'[k] # None]_vars
    /\ [](last_ok >= 1 => \A k \in CacheKeys : cache[k] # None)
    /\ []((got # NoGet /\ got.at = requests /\ bpc = "idle") =>
              (got.status = "404" <=> cache[got.key] = None))
    /\ []((got # NoGet /\ last_ok >= 1 /\ got.at >= last_ok) =>
              got.status \in {"200", "500"})
    /\ []((got # NoGet /\ got.at = 0) => got.status = "404")

\* After a request answered "ok" and a later request answered with an
\* error, a GET request for the transformed data found its item, which is
\* the one of the first request.
C25_Witness ==
    /\ requests = 2 /\ last_ok = 1 /\ reply = "error" /\ bpc = "idle"
    /\ got = [path |-> "/data/transformed", key |-> "transformed_data",
              status |-> "200", at |-> 2]
    /\ StoredBy("transformed_data") = 1

Transformed == transformed_data[1]

\* Row i of the transform is merged record k under new names: the satellite,
\* the timestamp as text, and the three numbers with six decimals.
ProjectionOf(i, k) ==
    /\ DOMAIN Transformed[i] = {"Satellite", "Time", "S4C", "Lat", "Lon"}
    /\ Transformed[i].Satellite = Merged[k].satellite
    /\ Transformed[i].Time[1] * TicksPerMinute + Transformed[i].Time[2]
           = Merged[k].timestamp
    /\ Transformed[i].Time[2] \in 0..(TicksPerMinute - 1)
    /\ Transformed[i].S4C = 100 * Merged[k].s4c[1]
    /\ Transformed[i].Lat = 100 * Merged[k].latitude[1]
    /\ Transformed[i].Lon = 100 * Merged[k].longitude[1]

DatedPositions == {k \in DOMAIN Merged : Merged[k].timestamp # NaT}
NthDated(i) ==
    CHOOSE k \in DatedPositions : Cardinality({j \in DatedPositions : j < k}) = i - 1

LatColumnHasValue(s) == \E i \in DOMAIN lat_data.index : lat_data.cells[<<i, s>>] # NaN

\* C22: from load_data on, a satellite column is in active_satellites iff
\* the latitude matrix holds a non-missing value in that column, whatever
\* the longitude and S4C matrices hold; each active satellite is listed
\* once; and no step after load_data changes the list.
C22_ActiveSatelliteSet ==
    /\ [](astate # "new" =>
            /\ \A s \in Range(Satellites) :
                  s \in Range(active_satellites) <=> LatColumnHasValue(s)
            /\ \A i, j \in DOMAIN active_satellites :
                  active_satellites[i] = active_satellites[j] => i = j)
    /\ [][astate # "new" => active_satellites' = active_satellites]_vars

\* An analyzer that has merged and gone on to the statistics: G01, without
\* a latitude, is not active; G02 has a latitude and is active although
\* the longitude matrix holds nothing for it.
C22_Witness ==
    /\ astate \in {"analyzed", "stats_raised"}
    /\ Len(lat_data.index) >= 1
    /\ active_satellites = <<"G02">>
    /\ ~LatColumnHasValue("G01")
    /\ \A i \in DOMAIN lon_data.index : lon_data.cells[<<i, "G02">>] = NaN

(***************************************************************************)
(* Properties of the alert log (SpecSingleRun).  The definitions below     *)
(* state the log states and the candidates in their own terms.             *)
(***************************************************************************)
Qualifies(record)  == record.S4C >= AlertThreshold
CandidatesOf(rows) == SelectSeq(rows, Qualifies)

\* The anchor of a non-empty log, and its age in whole days at clock t.
Anchor(rows)  == SetMax({to_datetime(rows[i].Time) : i \in DOMAIN rows})
Age(rows, t)  == (t - Anchor(rows)) \div TicksPerDay
LogState(file, t) ==
    IF ~file.exists THEN "Absent"
    ELSE IF ~file.readable THEN "Unreadable"
    ELSE IF file.rows = <<>> THEN "Empty"
    ELSE IF Age(file.rows, t) <= RetentionDays THEN "Fresh"
    ELSE "Stale"

\* The latest operation and what it worked on.
AlertStepDone == ran = "cycle" /\ (pc \in {"upload", "upload_log"} \/ last_step = 6)
FilterDone    == ran = "filter" /\ result = "True"
Updated       == AlertStepDone \/ FilterDone
Batch         == IF ran = "filter" THEN data_arg.rows ELSE records
StateBefore   == LogState(alert_at_start, now)
OldRows       == alert_at_start.rows
CycleFailed   == ran = "cycle" /\ pc = "idle" /\ result = "False"

\* C2: when the alert step of a cycle (or filter_s4c_data) has run on a
\* Fresh log with at least one candidate in the batch, the log is the old
\* rows in their old order followed by the candidates in batch order.
C2_FreshAppend ==
    (Updated /\ StateBefore = "Fresh" /\ Len(CandidatesOf(Batch)) >= 1) =>
        /\ alert_file = CsvFile(OldRows \o CandidatesOf(Batch))
        /\ Len(alert_file.rows) = Len(OldRows) + Len(CandidatesOf(Batch))

\* A cycle appended two candidates to a Fresh log of two rows.
C2_Witness ==
    /\ AlertStepDone /\ StateBefore = "Fresh"
    /\ Len(OldRows) = 2 /\ Len(CandidatesOf(records)) = 2
    /\ OldRows[1] # OldRows[2]
    /\ Len(alert_file.rows) = 4

\* C3: when the alert step (or filter_s4c_data) has run on a Stale log with
\* at least one candidate in the batch, the log is exactly the candidates
\* and no old row remains.
C3_StaleReplace ==
    (Updated /\ StateBefore = "Stale" /\ Len(CandidatesOf(Batch)) >= 1) =>
        /\ alert_file = CsvFile(CandidatesOf(Batch))
        /\ Len(alert_file.rows) = Len(CandidatesOf(Batch))

\* A cycle replaced a Stale log of two rows by a single candidate.
C3_Witness ==
    /\ AlertStepDone /\ StateBefore = "Stale"
    /\ Len(OldRows) = 2 /\ Len(CandidatesOf(records)) = 1
    /\ Len(alert_file.rows) = 1

\* C4 as stated: a cycle whose batch holds no record with S4C >= 0.4 leaves
\* the alert log as it was when the cycle started, in every log state.
C4_EmptyCandidatesNoOp ==
    (ran = "cycle" /\ records # <<>> /\ CandidatesOf(records) = <<>>) =>
        alert_file = alert_at_start

\* C5 as stated: when a cycle has ended in failure, the alert log is what it
\* was when the cycle started.
C5_FailureLeavesLog ==
    CycleFailed => alert_file = alert_at_start

\* C6: for a non-empty log and at least one candidate, the rows are appended
\* exactly when fewer than RetentionDays + 1 full days lie between the
\* newest Time of the log (whichever row holds it) and the clock, and
\* replace the log otherwise; 60 days and a fraction append, a Time in the
\* future appends, 61 days replace.
C6_RetentionBoundary ==
    (/\ Updated
     /\ alert_at_start.exists /\ alert_at_start.readable /\ OldRows # <<>>
     /\ Len(CandidatesOf(Batch)) >= 1) =>
        LET newest == SetMax({to_datetime(OldRows[i].Time) : i \in DOMAIN OldRows})
        IN  IF now - newest < (RetentionDays + 1) * TicksPerDay
            THEN alert_file.rows = OldRows \o CandidatesOf(Batch)
            ELSE alert_file.rows = CandidatesOf(Batch)

\* A cycle appended to a log whose newest Time, held by the first of its two
\* rows, is 60 days and a fraction of a day old, and whose last row is 61
\* days old.
C6_Witness ==
    /\ AlertStepDone
    /\ Len(OldRows) = 2
    /\ now - to_datetime(OldRows[1].Time) > RetentionDays * TicksPerDay
    /\ now - to_datetime(OldRows[1].Time) < (RetentionDays + 1) * TicksPerDay
    /\ now - to_datetime(OldRows[2].Time) >= (RetentionDays + 1) * TicksPerDay
    /\ Len(CandidatesOf(records)) >= 1
    /\ Len(alert_file.rows) = 2 + Len(CandidatesOf(records))

\* The rows the latest update added to the log.
NewRows ==
    IF StateBefore = "Fresh"
    THEN SubSeq(alert_file.rows, Len(OldRows) + 1, Len(alert_file.rows))
    ELSE alert_file.rows

\* C7: after the alert step of a cycle (or filter_s4c_data), a record of
\* the batch is among the rows added to the log iff its S4C is at least 0.4:
\* one with S4C = 0.400000 is added, one with S4C = 0.399999 is not.
C7_ThresholdBoundary ==
    Updated =>
        \A i \in DOMAIN Batch :
            /\ Batch[i] \in Range(NewRows) <=> Batch[i].S4C >= AlertThreshold
            /\ Batch[i].S4C = AlertThreshold => Batch[i] \in Range(NewRows)
            /\ Batch[i].S4C = AlertThreshold - 1 => Batch[i] \notin Range(NewRows)

\* A cycle over a batch with one record at 0.400000 and one at 0.399999.
C7_Witness ==
    /\ AlertStepDone
    /\ \E i, j \in DOMAIN records :
          /\ records[i].S4C = AlertThreshold
          /\ records[j].S4C = AlertThreshold - 1
    /\ Len(NewRows) = 1

\* C8: when the alert step (or filter_s4c_data) has run with at least one
\* candidate and the log was absent or empty, the log is exactly the
\* candidates in batch order, whatever the clock reads.
C8_InitialWrite ==
    (Updated /\ StateBefore \in {"Absent", "Empty"} /\ Len(CandidatesOf(Batch)) >= 1) =>
        alert_file = CsvFile(CandidatesOf(Batch))

\* A cycle wrote two different candidates into a log that did not exist.
C8_Witness ==
    /\ AlertStepDone /\ StateBefore = "Absent"
    /\ Len(CandidatesOf(records)) = 2
    /\ CandidatesOf(records)[1] # CandidatesOf(records)[2]
    /\ Len(alert_file.rows) = 2

\* C9 as stated: after candidates were written into an absent or empty log,
\* the log is Fresh at the time of the write.
C9_FreshAfterInitialWrite ==
    (Updated /\ StateBefore \in {"Absent", "Empty"} /\ Len(CandidatesOf(Batch)) >= 1) =>
        LogState(alert_file, now) = "Fresh"

\* C9 amended: after candidates were written into an absent or empty log,
\* the log is not empty, its anchor is the newest Time among the candidates,
\* and it is Fresh when that Time is at most 60 whole days before the clock
\* and Stale otherwise.
C9_StateAfterInitialWrite ==
    (Updated /\ StateBefore \in {"Absent", "Empty"} /\ Len(CandidatesOf(Batch)) >= 1) =>
        LET newest == SetMax({to_datetime(r.Time) : r \in Range(CandidatesOf(Batch))})
        IN  /\ alert_file.rows # <<>>
            /\ Anchor(alert_file.rows) = newest
            /\ LogState(alert_file, now) =
                   IF (now - newest) \div TicksPerDay <= RetentionDays
                   THEN "Fresh" ELSE "Stale"

\* A cycle wrote two candidates, the newer one last, into an empty log and
\* left it Stale.
C9_Witness ==
    /\ AlertStepDone /\ StateBefore = "Empty"
    /\ Len(CandidatesOf(records)) = 2
    /\ to_datetime(CandidatesOf(records)[1].Time) < to_datetime(CandidatesOf(records)[2].Time)
    /\ LogState(alert_file, now) = "Stale"

\* The alert step of the latest cycle was executed, or the latest
\* filter_s4c_data call came as far as the alert log.
AlertStepRan ==
    \/ ran = "cycle" /\ last_step >= 5
    \/ ran = "filter" /\ data_arg.exists /\ data_arg.readable

\* C14 as stated: when the alert step has run on a log that exists and
\* cannot be read, with at least one candidate in the batch, the step has
\* succeeded and the log is exactly the candidates.
C14_UnreadableOverwritten ==
    (AlertStepRan /\ StateBefore = "Unreadable" /\ Len(CandidatesOf(Batch)) >= 1) =>
        /\ alert_file = CsvFile(CandidatesOf(Batch))
        /\ ~(ran = "cycle" /\ pc = "idle" /\ last_step = 5 /\ result = "False")
        /\ ~(ran = "filter" /\ result = "False")

Succeeded(i) == step_log[i][2]

\* C24: the steps a cycle has executed are steps 1, 2, ... in this order,
\* each once and at most six; every step but the last executed one has
\* succeeded; a cycle that has returned returned True iff it executed all
\* six steps and all succeeded, and otherwise stopped at the step that
\* failed.  The API response, the records, data.csv, the alert log and the
\* repository change only in steps 2, 3, 4, 5 and 6, and a cycle that
\* returned True has written data.csv and uploaded both files.
C24_StepOrderAndAbort ==
    ran = "cycle" =>
        /\ Len(step_log) <= 6
        /\ \A i \in DOMAIN step_log : step_log[i][1] = i
        /\ \A i \in DOMAIN step_log : i < Len(step_log) => Succeeded(i)
        /\ pc # "idle" => \A i \in DOMAIN step_log : Succeeded(i)
        /\ pc = "idle" =>
              /\ result = "True" <=>
                    (Len(step_log) = 6 /\ \A i \in DOMAIN step_log : Succeeded(i))
              /\ result = "False" => ~Succeeded(Len(step_log))
        /\ api_response # NoResponse => Len(step_log) >= 2
        /\ records # <<>> => Len(step_log) >= 3
        /\ output_file # folder_at_start.output_file => Len(step_log) >= 4
        /\ alert_file # alert_at_start => Len(step_log) >= 5
        /\ github # folder_at_start.github =>
              (Len(step_log) >= 5 /\ pc \in {"upload_log", "idle"})
        /\ github.alert # folder_at_start.github.alert => Len(step_log) = 6
        /\ result = "True" =>
              /\ records # <<>>
              /\ output_file = CsvFile(records)
              /\ github = [data |-> output_file, alert |-> alert_file]

\* A cycle that wrote data.csv, failed in step 5 on a log it could not
\* read, and returned False without an upload.
C24_Witness ==
    /\ ran = "cycle" /\ pc = "idle" /\ result = "False"
    /\ Len(step_log) = 5
    /\ output_file = CsvFile(records) /\ records # <<>>
    /\ alert_file = alert_at_start
    /\ github = folder_at_start.github

(***************************************************************************)
(* Properties of cycles in a row (SpecTwoCycles, SpecRetry).               *)
(***************************************************************************)
\* C23: on a folder whose alert log was absent or empty at first, after
\* any cycles, finished or under way, every entry of the alert log has
\* S4C >= 0.4, and so has every entry of the copy in the repository.
C23_LogEntriesQualify ==
    /\ \A i \in DOMAIN alert_file.rows : alert_file.rows[i].S4C >= AlertThreshold
    /\ \A i \in DOMAIN github.alert.rows : github.alert.rows[i].S4C >= AlertThreshold

\* The second of two cycles has appended to the log that the first cycle
\* created; the batch holds a record below 0.4, the log holds none.
C23_Witness ==
    /\ ops = 2 /\ AlertStepDone
    /\ ~prev.alert_at_start.exists
    /\ \E i \in DOMAIN records : records[i].S4C < AlertThreshold
    /\ Len(CandidatesOf(records)) >= 1
    /\ Len(alert_file.rows) = 2 * Len(CandidatesOf(records))

\* The response the latest cycle got holds no record: the keys are missing
\* or the list is empty.
NoRecordsInResponse == api_response # NoResponse /\ api_response.records = <<>>

\* C26: a cycle whose API response holds no record goes no further than
\* step 3: it returns False there, and data.csv, the alert log and the two
\* files of the repository are what they were when the cycle started.
C26_ZeroRecordCycle ==
    (ran = "cycle" /\ NoRecordsInResponse) =>
        /\ pc \in {"extract", "idle"}
        /\ pc = "idle" => (result = "False" /\ Len(step_log) = 3 /\ ~Succeeded(3))
        /\ output_file = folder_at_start.output_file
        /\ alert_file = alert_at_start
        /\ github = folder_at_start.github

\* The second of two cycles got an empty list and returned at step 3; the
\* first cycle had written data.csv and the alert log and uploaded both.
C26_Witness ==
    /\ ops = 2 /\ pc = "idle" /\ Len(step_log) = 3
    /\ api_response = Response(<<>>)
    /\ prev.result = "True"
    /\ output_file = CsvFile(prev.batch)
    /\ Len(alert_file.rows) >= 1
    /\ github = [data |-> output_file, alert |-> alert_file]

\* C27: when two cycles in a row got the same batch with k >= 1 candidates
\* and each found the log Fresh, after the alert step of the second the log
\* is the old entries followed by the candidates twice: old_count + 2k
\* entries, the candidates of the first cycle still there.
C27_RetryAppendsAgain ==
    (/\ ops = 2 /\ AlertStepDone
     /\ prev.ran = "cycle" /\ prev.last_step = 6
     /\ records = prev.batch
     /\ Len(CandidatesOf(records)) >= 1
     /\ LogState(prev.alert_at_start, prev.now) = "Fresh"
     /\ LogState(alert_at_start, now) = "Fresh") =>
        /\ alert_file.rows = prev.alert_at_start.rows \o CandidatesOf(records)
                                                     \o CandidatesOf(records)
        /\ Len(alert_file.rows) = Len(prev.alert_at_start.rows)
                                     + 2 * Len(CandidatesOf(records))

\* A cycle appended two candidates to a log of one entry and failed in the
\* upload; the next cycle, with the same batch, appended them again.
C27_Witness ==
    /\ ops = 2 /\ AlertStepDone
    /\ prev.last_step = 6 /\ prev.result = "False"
    /\ records = prev.batch
    /\ Len(CandidatesOf(records)) = 2
    /\ Len(prev.alert_at_start.rows) = 1
    /\ LogState(prev.alert_at_start, prev.now) = "Fresh"
    /\ Len(alert_file.rows) = 5

(***************************************************************************)
(* Properties of the scheduler (SpecScheduler).                            *)
(***************************************************************************)
\* C17: under start_scheduler at most one cycle is running at any time: a
\* cycle starts only when every cycle started before has returned, the
\* initial test cycle included.
C17_OneCycleAtATime ==
    /\ running <= 1
    /\ started >= 2 => (running = 1 <=> spc = "job")

\* A scheduled cycle is running that started late, because the job fell due
\* while the initial test cycle was still running.
C17_Witness ==
    /\ spc = "job"
    /\ running = 1
    /\ started >= 2
    /\ lateness >= 1

(***************************************************************************)
(* Properties of the shared alert log (SpecConcurrent).                    *)
(***************************************************************************)
\* C15 as stated: while at most one writer has written the log, a reader
\* of the file has got the complete log from before the write or the
\* complete log the writer leaves.
C15_AtomicLogWrite ==
    (seen # None /\ Len(opened) <= 1) =>
        \/ seen[1] = alert_at_start
        \/ opened # <<>> /\ seen[1] = CsvFile(wout[opened[1]])

Occurrences(rows, row) == Cardinality({i \in DOMAIN rows : rows[i] = row})

\* C16 as stated: when the processor and filter_s4c_data have both finished
\* on a log that was readable or absent, the log holds the candidates of
\* both (no row that one of them appended is lost).
C16_NoLostUpdate ==
    (/\ wpc["processor"] = "done" /\ wpc["filter"] = "done"
     /\ alert_file.readable) =>
        \A row \in AlertRows :
            Occurrences(alert_file.rows, row) >=
                Occurrences(wcand["processor"], row) + Occurrences(wcand["filter"], row)

(***************************************************************************)
(* The two implementations of the alert-log update (SpecTwin).             *)
(***************************************************************************)
GeneratedLog == twin_out["processor"][1].file
FilteredLog  == twin_out["filter"][1].file

\* C28: for every log state among Absent, Empty, Fresh and Stale, every
\* clock reading and every batch with at least one candidate,
\* generate_s4c_alert_file and filter_s4c_data report the same outcome and
\* leave the alert log with the same entries in the same order.
C28_ImplementationsAgree ==
    (/\ twin_out["processor"] # None
     /\ twin_out["filter"] # None
     /\ LogState(alert_file, now) \in {"Absent", "Empty", "Fresh", "Stale"}
     /\ CandidatesOf(records) # <<>>)
    => /\ twin_out["processor"][1].ok = twin_out["filter"][1].ok
       /\ GeneratedLog.readable
       /\ FilteredLog.readable
       /\ Len(GeneratedLog.rows) = Len(FilteredLog.rows)
       /\ \A i \in DOMAIN GeneratedLog.rows : GeneratedLog.rows[i] = FilteredLog.rows[i]

\* A Fresh log of two entries and a batch of two records of which one is a
\* candidate: both implementations leave the same three entries.
C28_Witness ==
    /\ twin_out["processor"] # None
    /\ twin_out["filter"] # None
    /\ LogState(alert_file, now) = "Fresh"
    /\ Len(alert_file.rows) = 2
    /\ Len(records) = 2
    /\ Len(CandidatesOf(records)) = 1
    /\ Len(GeneratedLog.rows) = 3
    /\ GeneratedLog = FilteredLog

=============================================================================
